---------------------------- MODULE Spec2Model ----------------------------
(***************************************************************************)
(* Model of the financial core of real-estate-analyzer:                    *)
(*   backend/app/utils/financial.py        (mortgage, amortization)        *)
(*   backend/app/services/deal_calculator.py (DealCalculator)              *)
(*   backend/app/services/risk_engine.py   (RiskEngine)                    *)
(*                                                                         *)
(* Units.  Money is an integer number of cents (Decimal quantized to 0.01).*)
(* Ratios quantized to 0.0001 are integers in units of 1/10000.  Annual    *)
(* interest rates are whole percents; the drawn rates are multiples of 3,  *)
(* so the monthly rate annual_rate/100/12 is a terminating decimal and the *)
(* Decimal value the code computes is the exact rational modelled here.    *)
(***************************************************************************)
EXTENDS Integers, Sequences, FiniteSets, TLC

VARIABLES am, dc, re, memo, pj

vars == <<am, dc, re, memo, pj>>

\* Python's None, decimal's NaN and a dictionary key not read yet: integers
\* outside every numeric domain of the model
None == -2147483647
NaN == -2147483646
Unread == -2147483645

(***************************************************************************)
(* Bounds of the model.                                                    *)
(***************************************************************************)
MaxSmallLoan == 12
MaxLoanSteps == 12
MaxTerm == 2

(***************************************************************************)
(* Decimal arithmetic.                                                     *)
(***************************************************************************)

\* x.quantize(q, rounding=ROUND_HALF_UP) of the exact quotient num/den, den > 0:
\* ties go away from zero.
RoundHalfUp(num, den) ==
    IF num >= 0 THEN (2 * num + den) \div (2 * den)
    ELSE -((2 * (-num) + den) \div (2 * den))

\* Arbitrary-size naturals (Decimal carries 28 significant digits; the
\* intermediate values of the payment formula do not fit a machine integer):
\* little-endian sequences of base-10000 digits, no most-significant zeros.
\* Every operation splits its index range in halves, so that the evaluation
\* depth is logarithmic in the number of digits.
Base == 10000

Digit(a, i) == IF i <= Len(a) THEN a[i] ELSE 0

RECURSIVE BigOfInt(_)
BigOfInt(k) == IF k = 0 THEN <<>> ELSE <<k % Base>> \o BigOfInt(k \div Base)

Max(S) == CHOOSE x \in S : \A y \in S : y <= x

\* the highest index in lo..hi of a nonzero digit of a, 0 if there is none
RECURSIVE TopNonZero(_, _, _)
TopNonZero(a, lo, hi) ==
    IF lo = hi THEN (IF a[lo] # 0 THEN lo ELSE 0)
    ELSE LET mid == (lo + hi) \div 2
             H == TopNonZero(a, mid + 1, hi)
         IN  IF H # 0 THEN H ELSE TopNonZero(a, lo, mid)

BigStrip(a) ==
    IF a = <<>> THEN a ELSE SubSeq(a, 1, TopNonZero(a, 1, Len(a)))

\* digits lo..hi of a * k + cin, and the carry out of digit hi
RECURSIVE MulRange(_, _, _, _, _)
MulRange(a, k, lo, hi, cin) ==
    IF lo = hi
    THEN LET t == a[lo] * k + cin
         IN  [d |-> <<t % Base>>, c |-> t \div Base]
    ELSE LET mid == (lo + hi) \div 2
             L == MulRange(a, k, lo, mid, cin)
             H == MulRange(a, k, mid + 1, hi, L.c)
         IN  [d |-> L.d \o H.d, c |-> H.c]

\* a * k for a machine integer 0 <= k <= 200000
BigMulSmall(a, k) ==
    IF k = 0 \/ a = <<>> THEN <<>>
    ELSE LET r == MulRange(a, k, 1, Len(a), 0) IN r.d \o BigOfInt(r.c)

\* digits lo..hi of a + b + cin, and the carry out of digit hi
RECURSIVE AddRange(_, _, _, _, _)
AddRange(a, b, lo, hi, cin) ==
    IF lo = hi
    THEN LET t == Digit(a, lo) + Digit(b, lo) + cin
         IN  [d |-> <<t % Base>>, c |-> t \div Base]
    ELSE LET mid == (lo + hi) \div 2
             L == AddRange(a, b, lo, mid, cin)
             H == AddRange(a, b, mid + 1, hi, L.c)
         IN  [d |-> L.d \o H.d, c |-> H.c]

BigAdd(a, b) ==
    LET n == IF Len(a) >= Len(b) THEN Len(a) ELSE Len(b)
    IN  IF n = 0 THEN <<>>
        ELSE LET r == AddRange(a, b, 1, n, 0) IN r.d \o BigOfInt(r.c)

\* digits lo..hi of a - b - bin, and the borrow out of digit hi
RECURSIVE SubRange(_, _, _, _, _)
SubRange(a, b, lo, hi, bin) ==
    IF lo = hi
    THEN LET t == Digit(a, lo) - Digit(b, lo) - bin
         IN  [d |-> <<IF t < 0 THEN t + Base ELSE t>>,
              c |-> IF t < 0 THEN 1 ELSE 0]
    ELSE LET mid == (lo + hi) \div 2
             L == SubRange(a, b, lo, mid, bin)
             H == SubRange(a, b, mid + 1, hi, L.c)
         IN  [d |-> L.d \o H.d, c |-> H.c]

\* a - b for a >= b
BigSub(a, b) ==
    IF a = <<>> THEN <<>> ELSE BigStrip(SubRange(a, b, 1, Len(a), 0).d)

BigShift(a, s) == IF a = <<>> THEN a ELSE [i \in 1..s |-> 0] \o a

\* a * (digits lo..hi of b)
RECURSIVE MulBy(_, _, _, _)
MulBy(a, b, lo, hi) ==
    IF lo = hi THEN BigMulSmall(a, b[lo])
    ELSE LET mid == (lo + hi) \div 2
         IN  BigAdd(MulBy(a, b, lo, mid),
                    BigShift(MulBy(a, b, mid + 1, hi), mid - lo + 1))

BigMul(a, b) ==
    IF a = <<>> \/ b = <<>> THEN <<>> ELSE MulBy(a, b, 1, Len(b))

\* -1, 0, 1 as digits lo..hi of a are below, equal to, above those of b
RECURSIVE CmpRange(_, _, _, _)
CmpRange(a, b, lo, hi) ==
    IF lo = hi
    THEN (IF a[lo] < b[lo] THEN -1 ELSE IF a[lo] > b[lo] THEN 1 ELSE 0)
    ELSE LET mid == (lo + hi) \div 2
             H == CmpRange(a, b, mid + 1, hi)
         IN  IF H # 0 THEN H ELSE CmpRange(a, b, lo, mid)

\* a <= b
BigLeq(a, b) ==
    IF Len(a) # Len(b) THEN Len(a) < Len(b)
    ELSE a = <<>> \/ CmpRange(a, b, 1, Len(a)) <= 0

\* k^n by repeated squaring
RECURSIVE BigPow(_, _)
BigPow(k, n) ==
    IF n = 0 THEN <<1>>
    ELSE LET h == BigPow(k, n \div 2)
             sq == BigMul(h, h)
         IN  IF n % 2 = 0 THEN sq ELSE BigMulSmall(sq, k)

\* the largest machine integer P in lo..hi with den * P <= num
RECURSIVE BigDivFloor(_, _, _, _)
BigDivFloor(num, den, lo, hi) ==
    IF lo >= hi THEN lo
    ELSE LET mid == (lo + hi + 1) \div 2
         IN  IF BigLeq(BigMul(den, BigOfInt(mid)), num)
             THEN BigDivFloor(num, den, mid, hi)
             ELSE BigDivFloor(num, den, lo, mid - 1)

\* (num/den).quantize(0.01, ROUND_HALF_UP) for naturals num, den with the
\* quotient known to be at most hi
BigRoundHalfUp(num, den, hi) ==
    BigDivFloor(BigAdd(BigMulSmall(num, 2), den), BigMulSmall(den, 2), 0, hi)

(***************************************************************************)
(* Results of calls that may raise.                                        *)
(***************************************************************************)
Ok(v) == [raised |-> "none", value |-> v]
Raise(e) == [raised |-> e]

(***************************************************************************)
(* financial.py                                                            *)
(***************************************************************************)

\* the monthly rate r = (annual_rate / 100) / 12 as the fraction
\* annual_rate / RateDen
RateDen == 1200

\* lines 44-47: loan * (r * (1+r)^n) / ((1+r)^n - 1), quantized; numerator
\* and denominator are both scaled by RateDen^(n+1)
AnnuityPayment(loan_amount, annual_rate, n) ==
    LET one_plus_r_n == BigPow(RateDen + annual_rate, n)
        den_n == BigPow(RateDen, n)
        num == BigMul(BigMulSmall(one_plus_r_n, annual_rate),
                      BigOfInt(loan_amount))
        den == BigMulSmall(BigSub(one_plus_r_n, den_n), RateDen)
    IN  BigRoundHalfUp(num, den,
            loan_amount + RoundHalfUp(loan_amount * annual_rate, RateDen) + 1)

\* lines 40-47: the payment of a loan > 0
PaymentOf(loan_amount, annual_rate, n) ==
    IF annual_rate = 0 THEN RoundHalfUp(loan_amount, n)
    ELSE AnnuityPayment(loan_amount, annual_rate, n)

\* memo tabulates pure calls that calculate_all repeats: for a key
\* <<loan_amount, annual_rate, term_years>> the payment and the balance
\* remaining after the years in MemoYears.  A call outside the table is
\* evaluated in place.
InMemo(loan_amount, annual_rate, term_years) ==
    <<loan_amount, annual_rate, term_years>> \in DOMAIN memo

calculate_monthly_mortgage(loan_amount, annual_rate, term_years) ==
    IF loan_amount < 0 THEN Raise("ValueError")
    ELSE IF term_years < 1 THEN Raise("ValueError")
    ELSE IF annual_rate < 0 THEN Raise("ValueError")
    ELSE LET n == term_years * 12
         IN  IF loan_amount = 0 THEN Ok(0)
             ELSE IF InMemo(loan_amount, annual_rate, term_years)
             THEN Ok(memo[<<loan_amount, annual_rate, term_years>>].payment)
             ELSE Ok(PaymentOf(loan_amount, annual_rate, n))

\* one pass of the loop body of calculate_amortization_schedule, rate 0
\* (lines 80-95): the row appended and the new remaining balance
ZeroRateRow(i, n, payment, principal_per_period, remaining) ==
    LET principal == IF i < n THEN principal_per_period ELSE remaining
        interest == 0
        rem1 == remaining - principal
        rem2 == IF rem1 < 0 THEN 0 ELSE rem1
    IN  [payment_number |-> i, payment |-> payment, principal |-> principal,
         interest |-> interest, remaining_balance |-> rem2]

\* PosRateRow with the interest cut to whole cents in place of rounded half
\* up: what C24 guards against
PosRateRow_Truncated(i, payment, annual_rate, remaining) ==
    LET interest == (remaining * annual_rate) \div RateDen
        principal == payment - interest
        rem1 == remaining - principal
        rem2 == IF rem1 < 0 THEN 0 ELSE rem1
    IN  [payment_number |-> i, payment |-> payment, principal |-> principal,
         interest |-> interest, remaining_balance |-> rem2]

\* one pass of the loop body for a positive rate (lines 99-116)
PosRateRow(i, payment, annual_rate, remaining) ==
    LET interest == RoundHalfUp(remaining * annual_rate, RateDen)
        principal == payment - interest
        rem1 == remaining - principal
        rem2 == IF rem1 < 0 THEN 0 ELSE rem1
    IN  [payment_number |-> i, payment |-> payment, principal |-> principal,
         interest |-> interest, remaining_balance |-> rem2]

AmortRow(i, n, payment, annual_rate, loan_amount, remaining) ==
    IF annual_rate = 0
    THEN ZeroRateRow(i, n, payment, RoundHalfUp(loan_amount, n), remaining)
    ELSE PosRateRow(i, payment, annual_rate, remaining)

\* rows lo..hi of the schedule of a loan > 0, given the balance remaining
\* before row lo (the loop of lines 79-95 or 98-116; the range is split in
\* halves to keep the evaluation depth logarithmic)
RECURSIVE ScheduleRows(_, _, _, _, _, _, _)
ScheduleRows(loan_amount, annual_rate, n, payment, lo, hi, remaining) ==
    IF lo > hi THEN <<>>
    ELSE IF lo = hi
    THEN <<AmortRow(lo, n, payment, annual_rate, loan_amount, remaining)>>
    ELSE LET mid == (lo + hi) \div 2
             L == ScheduleRows(loan_amount, annual_rate, n, payment,
                               lo, mid, remaining)
             H == ScheduleRows(loan_amount, annual_rate, n, payment,
                               mid + 1, hi, L[Len(L)].remaining_balance)
         IN  L \o H

\* rows 1..upto of calculate_amortization_schedule (every row when
\* upto = term_years * 12)
SchedulePrefix(loan_amount, annual_rate, term_years, upto) ==
    IF loan_amount < 0 \/ term_years < 1 THEN Raise("ValueError")
    ELSE IF annual_rate < 0 THEN Raise("ValueError")
    ELSE IF loan_amount = 0 THEN Ok(<<>>)
    ELSE Ok(ScheduleRows(loan_amount, annual_rate, term_years * 12,
              calculate_monthly_mortgage(loan_amount, annual_rate,
                                         term_years).value,
              1, upto, loan_amount))

calculate_amortization_schedule(loan_amount, annual_rate, term_years) ==
    SchedulePrefix(loan_amount, annual_rate, term_years, term_years * 12)

\* lines 192-197: schedule[months - 1] is row `months`, which depends only
\* on the rows before it, so the rows after it are not built here
ScheduledBalance(loan_amount, annual_rate, term_years, years_elapsed) ==
    LET months == years_elapsed * 12
        key == <<loan_amount, annual_rate, term_years>>
    IN  IF months >= term_years * 12 THEN 0
        ELSE IF InMemo(loan_amount, annual_rate, term_years)
                /\ years_elapsed \in DOMAIN memo[key].balance
        THEN memo[key].balance[years_elapsed]
        ELSE SchedulePrefix(loan_amount, annual_rate, term_years,
                            months).value[months].remaining_balance

calculate_remaining_balance(loan_amount, annual_rate, term_years, years_elapsed) ==
    IF loan_amount <= 0 \/ term_years < 1 THEN Raise("ValueError")
    ELSE IF annual_rate < 0 THEN Raise("ValueError")
    ELSE IF years_elapsed <= 0 THEN Ok(loan_amount)
    ELSE IF years_elapsed >= term_years THEN Ok(0)
    ELSE Ok(ScheduledBalance(loan_amount, annual_rate, term_years,
                             years_elapsed))

\* the table entry of one key, from the operators above
MemoYears == {5, 10}
MemoEntry(loan_amount, annual_rate, term_years) ==
    LET n == term_years * 12
        payment == PaymentOf(loan_amount, annual_rate, n)
        years == {y \in MemoYears : y < term_years}
        rows == ScheduleRows(loan_amount, annual_rate, n, payment, 1,
                             12 * Max(years), loan_amount)
    IN  [payment |-> payment,
         balance |-> [y \in years |-> rows[12 * y].remaining_balance]]

NoMemo == <<>>

(***************************************************************************)
(* calculate_irr (financial.py, lines 120-169).  The solver iterates on    *)
(* 28-digit decimals; the model keeps the ways it can end:                 *)
(*   - fewer than 2 cash flows: ValueError (line 128);                     *)
(*   - numpy_financial importable: the quantized rate npf.irr found, or    *)
(*     the quantized NaN that npf.irr returns when it finds no rate        *)
(*     (lines 135-139; the `is None` test of line 137 does not match NaN); *)
(*   - otherwise Newton's method: a quantized rate (line 162), ValueError  *)
(*     "IRR did not converge" (line 169), or decimal.Overflow, an          *)
(*     ArithmeticError, out of the powers of lines 147 and 155 when the    *)
(*     iterate diverges.                                                   *)
(* A first flow < 0 followed only by flows <= 0 has no rate with NPV = 0,  *)
(* so no rate is returned for it.                                          *)
(***************************************************************************)
IrrRates == {1461}

NoSignChange(cash_flows) ==
    /\ cash_flows[1] < 0
    /\ \A k \in 2..Len(cash_flows) : cash_flows[k] <= 0

calculate_irr(cash_flows) ==
    IF Len(cash_flows) < 2 THEN {Raise("ValueError")}
    ELSE {Ok(NaN), Raise("ValueError"), Raise("Overflow")}
         \cup (IF NoSignChange(cash_flows) THEN {}
               ELSE {Ok(r) : r \in IrrRates})

(***************************************************************************)
(* calculate_amortization_schedule as a process: am holds its arguments    *)
(* and locals.                                                             *)
(***************************************************************************)
LoanAmounts ==
    {-5000, 0} \cup 1..MaxSmallLoan \cup {k * 5000 : k \in 1..MaxLoanSteps}
AnnualRates == {-3, 0, 6, 12}
TermYears == 0..MaxTerm

\* a process that is not called in the specification at hand
Idle == [pc |-> "idle"]

AmInit ==
    /\ am \in [pc : {"call"}, loan_amount : LoanAmounts,
               annual_rate : AnnualRates, term_years : TermYears,
               n : {0}, payment : {0}, remaining : {0}, i : {0},
               schedule : {<<>>}, raised : {"none"}]
    /\ dc = Idle
    /\ re = Idle
    /\ memo = NoMemo
    /\ pj = Idle

\* lines 60-63: argument validation
AmReject ==
    /\ am.pc = "call"
    /\ \/ am.loan_amount < 0
       \/ am.term_years < 1
       \/ am.annual_rate < 0
    /\ am' = [am EXCEPT !.pc = "done", !.raised = "ValueError"]
    /\ UNCHANGED <<dc, re, memo, pj>>

\* lines 65-73: n, payment, r, the empty schedule; return at once for loan 0
AmEnter ==
    /\ am.pc = "call"
    /\ ~(am.loan_amount < 0 \/ am.term_years < 1 \/ am.annual_rate < 0)
    /\ am' = [am EXCEPT
                !.n = am.term_years * 12,
                !.payment = calculate_monthly_mortgage(am.loan_amount,
                                am.annual_rate, am.term_years).value,
                !.remaining = am.loan_amount,
                !.i = 1,
                !.pc = IF am.loan_amount = 0 THEN "done" ELSE "loop"]
    /\ UNCHANGED <<dc, re, memo, pj>>

\* lines 79-95: one iteration of the zero-rate loop
AmStepZeroRate ==
    /\ am.pc = "loop"
    /\ am.annual_rate = 0
    /\ am.i <= am.n
    /\ LET row == AmortRow(am.i, am.n, am.payment, am.annual_rate,
                           am.loan_amount, am.remaining)
       IN  am' = [am EXCEPT !.schedule = Append(am.schedule, row),
                            !.remaining = row.remaining_balance,
                            !.i = am.i + 1]
    /\ UNCHANGED <<dc, re, memo, pj>>

\* lines 98-116: one iteration of the positive-rate loop
AmStepPosRate ==
    /\ am.pc = "loop"
    /\ am.annual_rate # 0
    /\ am.i <= am.n
    /\ LET row == AmortRow(am.i, am.n, am.payment, am.annual_rate,
                           am.loan_amount, am.remaining)
       IN  am' = [am EXCEPT !.schedule = Append(am.schedule, row),
                            !.remaining = row.remaining_balance,
                            !.i = am.i + 1]
    /\ UNCHANGED <<dc, re, memo, pj>>

\* lines 96, 117: return schedule
AmReturn ==
    /\ am.pc = "loop"
    /\ am.i > am.n
    /\ am' = [am EXCEPT !.pc = "done"]
    /\ UNCHANGED <<dc, re, memo, pj>>

\* calculate_remaining_balance called on the same arguments and a number of
\* years (lines 172-197)
RbCall ==
    /\ am.pc = "call"
    /\ \E years_elapsed \in -1..(MaxTerm + 1) :
       \E r \in {calculate_remaining_balance(am.loan_amount, am.annual_rate,
                                             am.term_years, years_elapsed)} :
         am' = [pc |-> "rb_done",
                loan_amount |-> am.loan_amount,
                annual_rate |-> am.annual_rate,
                term_years |-> am.term_years,
                years_elapsed |-> years_elapsed,
                raised |-> r.raised,
                balance |-> IF r.raised = "none" THEN r.value ELSE None]
    /\ UNCHANGED <<dc, re, memo, pj>>

\* calculate_irr called on a list of cash flows, in cents (lines 120-169)
IrrCall ==
    /\ am.pc = "call"
    /\ \E cash_flows \in {<<>>, <<-10000>>, <<-10000, -5000>>,
                          <<-10000, 11000>>, <<-10000, 0>>,
                          <<-2000000, -600000, -600000, 1000000>>} :
       \E o \in calculate_irr(cash_flows) :
         am' = [pc |-> "irr_done",
                cash_flows |-> cash_flows,
                raised |-> o.raised,
                rate |-> IF o.raised = "none" THEN o.value ELSE None]
    /\ UNCHANGED <<dc, re, memo, pj>>

AmNext ==
    \/ AmReject \/ AmEnter \/ AmStepZeroRate \/ AmStepPosRate \/ AmReturn
    \/ RbCall \/ IrrCall

SpecAmort == AmInit /\ [][AmNext]_vars

\* the schedule a finished call returned for a loan > 0
AmReturned == am.pc = "done" /\ am.raised = "none" /\ am.loan_amount > 0

RECURSIVE SumPrincipal(_, _)
SumPrincipal(schedule, upto) ==
    IF upto = 0 THEN 0
    ELSE schedule[upto].principal + SumPrincipal(schedule, upto - 1)

\* C1: for every loan > 0, rate >= 0 and term >= 1, the last row of the
\* schedule calculate_amortization_schedule returns has remaining_balance
\* exactly 0.00.
C1_LastRowBalanceZero ==
    AmReturned => am.schedule[Len(am.schedule)].remaining_balance = 0

\* C2: for every loan > 0, rate >= 0 and term >= 1, the principal fields of
\* the rows of the schedule sum to the loan, to within 1 cent.
C2_PrincipalSumsToLoan ==
    AmReturned =>
        LET total == SumPrincipal(am.schedule, Len(am.schedule))
        IN  total - am.loan_amount \in -1..1

\* C15: for every loan amount, rate >= 0 and term >= 1 that the amortization
\* functions accept (loan >= 0), calculate_remaining_balance returns the
\* loan when years_elapsed <= 0, 0 when years_elapsed >= term_years, and the
\* remaining_balance of schedule row years_elapsed x 12 in between.
C15_RemainingBalance ==
    (/\ am.pc = "rb_done"
     /\ am.loan_amount >= 0 /\ am.annual_rate >= 0 /\ am.term_years >= 1) =>
        /\ am.raised = "none"
        /\ am.years_elapsed <= 0 => am.balance = am.loan_amount
        /\ am.years_elapsed >= am.term_years => am.balance = 0
        /\ (am.years_elapsed > 0 /\ am.years_elapsed < am.term_years) =>
              am.balance =
                  calculate_amortization_schedule(am.loan_amount,
                      am.annual_rate, am.term_years
                  ).value[am.years_elapsed * 12].remaining_balance

\* C16: for a zero-rate loan > 0 the payment is loan / (term x 12) rounded
\* to cents, every row but the last has that payment as principal and
\* interest 0, and the principal of the last row is within 1 cent of it.
C16_ZeroRateEven ==
    (AmReturned /\ am.annual_rate = 0) =>
        LET n == am.term_years * 12
            payment == (2 * am.loan_amount + n) \div (2 * n)
        IN  /\ am.payment = payment
            /\ \A i \in 1..(n - 1) :
                  /\ am.schedule[i].principal = payment
                  /\ am.schedule[i].interest = 0
            /\ am.schedule[n].principal - payment \in -1..1

\* C17: for rate >= 0 and term >= 1, calculate_amortization_schedule returns
\* term x 12 rows numbered 1..term x 12 in order when the loan is > 0, and
\* returns the empty sequence, without raising, for every loan <= 0.
C17_RowCount ==
    (/\ am.pc = "done"
     /\ am.annual_rate >= 0 /\ am.term_years >= 1) =>
        /\ am.raised = "none"
        /\ am.loan_amount > 0 =>
              /\ Len(am.schedule) = am.term_years * 12
              /\ \A i \in 1..Len(am.schedule) :
                    am.schedule[i].payment_number = i
        /\ am.loan_amount <= 0 => am.schedule = <<>>

\* C24: the schedule is produced step by step from balance_0 = loan: for a
\* rate > 0 every row i has interest_i = balance_{i-1} x r rounded half up
\* to cents, principal_i = payment - interest_i with principal_i >= 0 and
\* balance_i = max(0, balance_{i-1} - principal_i); so payment = principal_i
\* + interest_i in every row, the remaining balance never increases and is
\* never negative, and the payment field is the same in all rows.
C24_StepRelation ==
    (/\ am.pc \in {"loop", "done"}
     /\ am.raised = "none"
     /\ am.annual_rate > 0) =>
        \A i \in 1..Len(am.schedule) :
            LET row == am.schedule[i]
                before == IF i = 1 THEN am.loan_amount
                          ELSE am.schedule[i - 1].remaining_balance
                left == before - row.principal
            IN  /\ row.interest = (2 * before * am.annual_rate + RateDen)
                                       \div (2 * RateDen)
                /\ row.principal = row.payment - row.interest
                /\ row.principal >= 0
                /\ row.remaining_balance = IF left < 0 THEN 0 ELSE left
                /\ row.payment = row.principal + row.interest
                /\ row.remaining_balance <= before
                /\ row.remaining_balance >= 0
                /\ row.payment = am.schedule[1].payment

\* a two-year schedule at 6% was returned in which the balance came down in
\* every row, interest being charged to the last row
C24_Witness ==
    /\ AmReturned
    /\ am.annual_rate = 6
    /\ Len(am.schedule) = 24
    /\ am.schedule[24].interest > 0
    /\ am.schedule[24].principal > 0
    /\ \A i \in 2..24 :
          am.schedule[i].remaining_balance
              < am.schedule[i - 1].remaining_balance

\* C25: calculate_irr rejects a list of fewer than 2 cash flows with a
\* ValueError, and for a list of at least 2 its Newton iteration ends within
\* its 100 passes in one of two ways: it returns a rate, or it raises
\* ValueError "IRR did not converge"; nothing else comes out of it.
C25_NewtonOutcomes ==
    am.pc = "irr_done" =>
        IF Len(am.cash_flows) < 2 THEN am.raised = "ValueError"
        ELSE \/ am.raised = "none" /\ am.rate # None
             \/ am.raised = "ValueError"

(***************************************************************************)
(* deal_calculator.py.  Percentages are whole percents; cap_rate,          *)
(* cash_on_cash, dscr and IRR are in units of 0.0001, grm in units of 0.01.*)
(***************************************************************************)

\* _d: None becomes 0
_d(val) == IF val = None THEN 0 ELSE val

\* Python's `val or default`: None and 0 are both falsy
OrDefault(val, default) == IF val = None \/ val = 0 THEN default ELSE val

\* (num / den).quantize(..., ROUND_HALF_UP) for den # 0
QuantizeDiv(num, den) ==
    IF den > 0 THEN RoundHalfUp(num, den) ELSE RoundHalfUp(-num, -den)

calculate_noi(gross_monthly_rent, vacancy_rate_pct, property_tax_monthly, insurance_monthly, maintenance_rate_pct, management_fee_pct, hoa_monthly, utilities_monthly, other_monthly_income) ==
    LET gross == _d(gross_monthly_rent)
        vacancy_pct == _d(vacancy_rate_pct)
        vacancy_loss == RoundHalfUp(gross * vacancy_pct, 100)
        egi == gross + _d(other_monthly_income) - vacancy_loss
        maintenance == RoundHalfUp(gross * _d(maintenance_rate_pct), 100)
        management == RoundHalfUp(gross * _d(management_fee_pct), 100)
        opex == _d(property_tax_monthly) + _d(insurance_monthly) + maintenance
                + management + _d(hoa_monthly) + _d(utilities_monthly)
        monthly_noi == egi - opex
    IN  monthly_noi * 12

calculate_cap_rate(noi, purchase_price) ==
    LET price == _d(purchase_price)
    IN  IF price <= 0 THEN Raise("ValueError")
        ELSE Ok(QuantizeDiv(_d(noi) * 10000, price))

calculate_cash_on_cash(annual_cash_flow, total_cash_invested) ==
    LET tci == _d(total_cash_invested)
    IN  IF tci <= 0 THEN Raise("ValueError")
        ELSE Ok(QuantizeDiv(_d(annual_cash_flow) * 10000, tci))

calculate_dscr(noi, annual_debt_service) ==
    LET ads == _d(annual_debt_service)
    IN  IF ads = 0 THEN None ELSE QuantizeDiv(_d(noi) * 10000, ads)

calculate_grm(purchase_price, annual_gross_rent) ==
    LET rent == _d(annual_gross_rent)
    IN  IF rent <= 0 THEN Raise("ValueError")
        ELSE Ok(QuantizeDiv(_d(purchase_price) * 100, rent))

calculate_monthly_cash_flow(effective_gross_income_monthly, operating_expenses_monthly, monthly_mortgage) ==
    _d(effective_gross_income_monthly) - _d(operating_expenses_monthly)
    - _d(monthly_mortgage)

calculate_total_cash_invested(purchase_price, down_payment_amount, closing_costs, rehab_costs) ==
    _d(down_payment_amount) + _d(closing_costs) + _d(rehab_costs)

\* calculate_equity_buildup returning what is still owed in place of what
\* has been paid down: what C30 guards against
calculate_equity_buildup_Owed(loan_amount, annual_rate, term_years, years) ==
    LET loan == _d(loan_amount)
    IN  IF loan <= 0 THEN Ok(0)
        ELSE calculate_remaining_balance(loan, _d(annual_rate), term_years,
                                         years)

calculate_equity_buildup(loan_amount, annual_rate, term_years, years) ==
    LET loan == _d(loan_amount)
    IN  IF loan <= 0 THEN Ok(0)
        ELSE LET Paid(remaining) ==
                     IF remaining.raised # "none" THEN remaining
                     ELSE Ok(loan - remaining.value)
             IN  Paid(calculate_remaining_balance(loan, _d(annual_rate),
                                                  term_years, years))

\* calculate_all, lines 209-215: down_pct and the resolved loan amount
ResolveDownPct(down_payment_pct) == _d(OrDefault(down_payment_pct, 20))

ResolveLoanAmount(purchase_price, down_payment_pct, loan_amount) ==
    LET down_pct == ResolveDownPct(down_payment_pct)
    IN  IF loan_amount = None
        THEN RoundHalfUp(purchase_price * 100 - purchase_price * down_pct, 100)
        ELSE _d(loan_amount)

\* calculate_all, lines 217-226: the resolved monthly mortgage
ResolveMonthlyMortgage(monthly_mortgage_in, loan_amount, interest_rate, loan_term_years) ==
    LET monthly_mortgage == _d(monthly_mortgage_in)
    IN  IF monthly_mortgage = 0 /\ loan_amount > 0 /\ interest_rate >= 0
        THEN calculate_monthly_mortgage(loan_amount, interest_rate,
                                        loan_term_years)
        ELSE Ok(monthly_mortgage)

\* calculate_all, lines 229, 233, 234: the percentages handed to calculate_noi
ResolveVacancyPct(vacancy_rate_pct) == _d(OrDefault(vacancy_rate_pct, 5))
ResolveMaintenancePct(maintenance_rate_pct) ==
    _d(OrDefault(maintenance_rate_pct, 5))
ResolveManagementPct(management_fee_pct) ==
    _d(OrDefault(management_fee_pct, 10))

\* CashOnCashOrNone with the test of line 296 as `>= 0`: what C3 guards
\* against
CashOnCashOrNone_GuardGe(annual_cash_flow, total_cash_invested) ==
    IF total_cash_invested >= 0
    THEN calculate_cash_on_cash(annual_cash_flow, total_cash_invested)
    ELSE Ok(None)

\* calculate_all, lines 296-301
CashOnCashOrNone(annual_cash_flow, total_cash_invested) ==
    IF total_cash_invested > 0
    THEN calculate_cash_on_cash(annual_cash_flow, total_cash_invested)
    ELSE Ok(None)

\* calculate_all, lines 303-316
EquityOrZero(loan_amount, interest_rate, loan_term_years, years) ==
    IF loan_amount > 0
    THEN calculate_equity_buildup(loan_amount, interest_rate,
                                  loan_term_years, years)
    ELSE Ok(0)

\* calculate_irr_projection, lines 165-193: the cash-flow list handed to
\* calculate_irr, or the error raised while building it
IrrCashFlows(deal_inputs, hold_years) ==
    LET purchase_price == _d(deal_inputs.purchase_price)
        tci0 == _d(deal_inputs.total_cash_invested)
        annual_cash_flow == _d(deal_inputs.annual_cash_flow)
        loan_amount == _d(deal_inputs.loan_amount)
        interest_rate == _d(deal_inputs.interest_rate)
        loan_term_years == OrDefault(deal_inputs.loan_term_years, 30)
        total_cash_invested == IF tci0 <= 0 THEN purchase_price ELSE tci0
        sale_price == _d(OrDefault(deal_inputs.after_repair_value,
                                   deal_inputs.purchase_price))
        selling_costs == _d(deal_inputs.selling_costs)
        Flows(remaining_balance) ==
            IF remaining_balance.raised # "none" THEN remaining_balance
            ELSE LET exit_proceeds ==
                         sale_price - selling_costs - remaining_balance.value
                 IN  Ok(<<-total_cash_invested>>
                        \o [k \in 1..hold_years |-> annual_cash_flow]
                        \o <<exit_proceeds>>)
    IN  Flows(IF loan_amount > 0 /\ hold_years < loan_term_years
              THEN calculate_remaining_balance(loan_amount, interest_rate,
                                               loan_term_years, hold_years)
              ELSE Ok(0))

\* calculate_irr_projection: the possible results for the given inputs
calculate_irr_projection(deal_inputs, hold_years) ==
    LET Solve(cash_flows) ==
            IF cash_flows.raised # "none" THEN {cash_flows}
            ELSE calculate_irr(cash_flows.value)
    IN  Solve(IrrCashFlows(deal_inputs, hold_years))

(***************************************************************************)
(* DealCalculator.calculate_all as a process.  dc.p is deal_inputs: a key  *)
(* of the dictionary is drawn when the code first reads it ("unread"       *)
(* before that).  A second entry point, CapRateCall, is the direct call of *)
(* calculate_cap_rate.                                                     *)
(***************************************************************************)
PurchasePrices == {None, 0, -100000, 2, 100000}
DownPaymentPcts == {None, 0, 25, 100}
LoanAmountsIn == {None, 0, 60000}
InterestRates == {None, 6}
LoanTerms == {None, 1, 7}
MonthlyMortgages == {None, 700}
GrossRents == {0, 1200}
\* <<vacancy_rate_pct, maintenance_rate_pct, management_fee_pct>>
PctInputs == {<<None, None, None>>, <<0, 0, 0>>, <<10, 8, 12>>, <<0, 8, None>>}
PropertyTaxes == {150}
Insurances == {50}
ClosingCosts == {None, 3000, -30000}
\* <<after_repair_value, selling_costs>>
SaleInputs == {<<None, None>>, <<120000, 5000>>}

DcP0 ==
    [purchase_price |-> Unread, down_payment_pct |-> Unread,
     loan_amount |-> Unread, interest_rate |-> Unread,
     loan_term_years |-> Unread, monthly_mortgage |-> Unread,
     gross_monthly_rent |-> Unread, vacancy_rate_pct |-> Unread,
     maintenance_rate_pct |-> Unread, management_fee_pct |-> Unread,
     other_monthly_income |-> Unread, property_tax_monthly |-> Unread,
     insurance_monthly |-> Unread, hoa_monthly |-> Unread,
     utilities_monthly |-> Unread, closing_costs |-> Unread,
     rehab_costs |-> Unread, after_repair_value |-> Unread,
     selling_costs |-> Unread]

DcStart ==
    [pc |-> "call", raised |-> "none", raised_in |-> "none", p |-> DcP0,
     purchase_price |-> 0, down_pct |-> 0, loan_amount |-> 0,
     interest_rate |-> 0, loan_term_years |-> 0, monthly_mortgage |-> 0,
     vacancy_rate_pct |-> 0, maintenance_rate_pct |-> 0,
     management_fee_pct |-> 0, noi |-> 0, vacancy_loss |-> 0,
     egi_monthly |-> 0, maintenance |-> 0, management |-> 0,
     opex_monthly |-> 0, monthly_cash_flow |-> 0, annual_cash_flow |-> 0,
     down_payment_amount |-> 0, total_cash_invested |-> 0,
     cap_rate |-> 0, grm |-> 0, annual_debt_service |-> 0, dscr |-> None,
     cash_on_cash |-> None, equity_5 |-> 0, equity_10 |-> 0,
     irr_5yr |-> None, irr_10yr |-> None,
     cash_flows_5 |-> <<>>, cash_flows_10 |-> <<>>,
     solver_5 |-> "none", solver_10 |-> "none",
     result |-> None, coc_score |-> Unread]

\* the loans > 0 that ResolveLoanAmount yields on the inputs above, with the
\* rates and terms drawn
MemoKeys == {2, 60000, 75000, 80000} \X {0, 6} \X {1, 7, 30}

DcInit ==
    /\ dc = DcStart
    /\ am = Idle
    /\ re = Idle
    /\ memo = [k \in MemoKeys |-> MemoEntry(k[1], k[2], k[3])]
    /\ pj = Idle

\* InvalidPrice with the test of line 206 as `< 0`: what C4 guards against
InvalidPrice_Strict(purchase_price) == purchase_price < 0

\* line 206: the test that rejects the purchase price
InvalidPrice(purchase_price) == purchase_price <= 0

\* lines 204-207
DcValidate ==
    /\ dc.pc = "call"
    /\ \E pp \in PurchasePrices :
         LET purchase_price == _d(pp)
             d1 == [dc EXCEPT !.p.purchase_price = pp,
                              !.purchase_price = purchase_price]
         IN  dc' = IF InvalidPrice(purchase_price)
                   THEN [d1 EXCEPT !.pc = "raised", !.raised = "ValueError",
                                   !.raised_in = "calculate_all"]
                   ELSE [d1 EXCEPT !.pc = "loan"]
    /\ UNCHANGED <<am, re, memo, pj>>

\* lines 209-215
DcResolveLoan ==
    /\ dc.pc = "loan"
    /\ \E dp \in DownPaymentPcts, la \in LoanAmountsIn :
         dc' = [dc EXCEPT
                  !.p.down_payment_pct = dp,
                  !.p.loan_amount = la,
                  !.down_pct = ResolveDownPct(dp),
                  !.loan_amount = ResolveLoanAmount(dc.purchase_price, dp, la),
                  !.pc = "mortgage"]
    /\ UNCHANGED <<am, re, memo, pj>>

\* lines 217-226
DcResolveMortgage ==
    /\ dc.pc = "mortgage"
    /\ \E ir \in InterestRates, lt \in LoanTerms, mm \in MonthlyMortgages :
         LET interest_rate == _d(OrDefault(ir, 0))
             loan_term_years == OrDefault(lt, 30)
             monthly_mortgage ==
                 ResolveMonthlyMortgage(mm, dc.loan_amount, interest_rate,
                                        loan_term_years)
             d1 == [dc EXCEPT !.p.interest_rate = ir,
                              !.p.loan_term_years = lt,
                              !.p.monthly_mortgage = mm,
                              !.interest_rate = interest_rate,
                              !.loan_term_years = loan_term_years]
         IN  dc' = IF monthly_mortgage.raised # "none"
                   THEN [d1 EXCEPT !.pc = "raised",
                                   !.raised = monthly_mortgage.raised,
                                   !.raised_in = "calculate_monthly_mortgage"]
                   ELSE [d1 EXCEPT !.monthly_mortgage = monthly_mortgage.value,
                                   !.pc = "income"]
    /\ UNCHANGED <<am, re, memo, pj>>

\* lines 228-276
DcIncome ==
    /\ dc.pc = "income"
    /\ \E gr \in GrossRents, pcts \in PctInputs,
          tax \in PropertyTaxes, ins \in Insurances :
         LET gross_monthly_rent == _d(gr)
             vacancy_rate_pct == ResolveVacancyPct(pcts[1])
             other_monthly_income == _d(None)
             property_tax_monthly == _d(tax)
             insurance_monthly == _d(ins)
             maintenance_rate_pct == ResolveMaintenancePct(pcts[2])
             management_fee_pct == ResolveManagementPct(pcts[3])
             hoa_monthly == _d(None)
             utilities_monthly == _d(None)
             noi == calculate_noi(gross_monthly_rent, vacancy_rate_pct,
                        property_tax_monthly, insurance_monthly,
                        maintenance_rate_pct, management_fee_pct,
                        hoa_monthly, utilities_monthly, other_monthly_income)
             vacancy_loss == RoundHalfUp(gross_monthly_rent * vacancy_rate_pct,
                                         100)
             egi_monthly == gross_monthly_rent + other_monthly_income
                            - vacancy_loss
             maintenance == RoundHalfUp(gross_monthly_rent
                                        * maintenance_rate_pct, 100)
             management == RoundHalfUp(gross_monthly_rent * management_fee_pct,
                                       100)
             opex_monthly == property_tax_monthly + insurance_monthly
                             + maintenance + management + hoa_monthly
                             + utilities_monthly
             monthly_cash_flow ==
                 calculate_monthly_cash_flow(egi_monthly, opex_monthly,
                                             dc.monthly_mortgage)
         IN  dc' = [dc EXCEPT
                      !.p.gross_monthly_rent = gr,
                      !.p.vacancy_rate_pct = pcts[1],
                      !.p.maintenance_rate_pct = pcts[2],
                      !.p.management_fee_pct = pcts[3],
                      !.p.other_monthly_income = None,
                      !.p.property_tax_monthly = tax,
                      !.p.insurance_monthly = ins,
                      !.p.hoa_monthly = None,
                      !.p.utilities_monthly = None,
                      !.vacancy_rate_pct = vacancy_rate_pct,
                      !.maintenance_rate_pct = maintenance_rate_pct,
                      !.management_fee_pct = management_fee_pct,
                      !.noi = noi,
                      !.vacancy_loss = vacancy_loss,
                      !.egi_monthly = egi_monthly,
                      !.maintenance = maintenance,
                      !.management = management,
                      !.opex_monthly = opex_monthly,
                      !.monthly_cash_flow = monthly_cash_flow,
                      !.annual_cash_flow = monthly_cash_flow * 12,
                      !.pc = "invested"]
    /\ UNCHANGED <<am, re, memo, pj>>

\* lines 278-285
DcInvested ==
    /\ dc.pc = "invested"
    /\ \E cc \in ClosingCosts :
         LET down_payment_amount ==
                 RoundHalfUp(dc.purchase_price * dc.down_pct, 100)
             closing_costs == _d(cc)
             rehab_costs == _d(None)
         IN  dc' = [dc EXCEPT
                      !.p.closing_costs = cc,
                      !.p.rehab_costs = None,
                      !.down_payment_amount = down_payment_amount,
                      !.total_cash_invested =
                          calculate_total_cash_invested(dc.purchase_price,
                              down_payment_amount, closing_costs, rehab_costs),
                      !.pc = "ratios"]
    /\ UNCHANGED <<am, re, memo, pj>>

\* lines 287-301
DcRatios ==
    /\ dc.pc = "ratios"
    /\ LET cap_rate == calculate_cap_rate(dc.noi, dc.purchase_price)
           annual_gross_rent == _d(dc.p.gross_monthly_rent) * 12
           grm == calculate_grm(dc.purchase_price, annual_gross_rent)
           annual_debt_service == dc.monthly_mortgage * 12
           dscr == calculate_dscr(dc.noi, annual_debt_service)
           cash_on_cash == CashOnCashOrNone(dc.annual_cash_flow,
                                            dc.total_cash_invested)
       IN  dc' = IF cap_rate.raised # "none"
                 THEN [dc EXCEPT !.pc = "raised", !.raised = cap_rate.raised,
                                 !.raised_in = "calculate_cap_rate"]
                 ELSE IF grm.raised # "none"
                 THEN [dc EXCEPT !.pc = "raised", !.raised = grm.raised,
                                 !.raised_in = "calculate_grm",
                                 !.cap_rate = cap_rate.value]
                 ELSE IF cash_on_cash.raised # "none"
                 THEN [dc EXCEPT !.pc = "raised",
                                 !.raised = cash_on_cash.raised,
                                 !.raised_in = "calculate_cash_on_cash",
                                 !.cap_rate = cap_rate.value,
                                 !.grm = grm.value,
                                 !.annual_debt_service = annual_debt_service,
                                 !.dscr = dscr]
                 ELSE [dc EXCEPT !.cap_rate = cap_rate.value,
                                 !.grm = grm.value,
                                 !.annual_debt_service = annual_debt_service,
                                 !.dscr = dscr,
                                 !.cash_on_cash = cash_on_cash.value,
                                 !.pc = "equity"]
    /\ UNCHANGED <<am, re, memo, pj>>

\* lines 303-316
DcEquity ==
    /\ dc.pc = "equity"
    /\ \E equity_5 \in {EquityOrZero(dc.loan_amount, dc.interest_rate,
                                      dc.loan_term_years, 5)},
          equity_10 \in {EquityOrZero(dc.loan_amount, dc.interest_rate,
                                       dc.loan_term_years, 10)} :
           dc' = IF equity_5.raised # "none"
                 THEN [dc EXCEPT !.pc = "raised", !.raised = equity_5.raised,
                                 !.raised_in = "calculate_equity_buildup"]
                 ELSE IF equity_10.raised # "none"
                 THEN [dc EXCEPT !.pc = "raised", !.raised = equity_10.raised,
                                 !.raised_in = "calculate_equity_buildup",
                                 !.equity_5 = equity_5.value]
                 ELSE [dc EXCEPT !.equity_5 = equity_5.value,
                                 !.equity_10 = equity_10.value,
                                 !.pc = "irr5"]
    /\ UNCHANGED <<am, re, memo, pj>>

\* lines 318-327: the dictionary handed to calculate_irr_projection
inputs_for_irr(d) ==
    [purchase_price |-> d.purchase_price,
     total_cash_invested |-> d.total_cash_invested,
     annual_cash_flow |-> d.annual_cash_flow,
     loan_amount |-> d.loan_amount,
     interest_rate |-> d.interest_rate,
     loan_term_years |-> d.loan_term_years,
     after_repair_value |-> OrDefault(d.p.after_repair_value,
                                      d.purchase_price),
     selling_costs |-> d.p.selling_costs]

\* the try/except of lines 330-333 and 334-337: ValueError and
\* ZeroDivisionError are swallowed, anything else propagates
Swallowed == {"ValueError", "ZeroDivisionError"}

\* what the solver did, kept to state the claims about failures
SolverStatus(o, cash_flows) ==
    IF cash_flows.raised # "none" THEN "not called"
    ELSE IF o.raised # "none" THEN o.raised
    ELSE IF o.value = NaN THEN "NaN"
    ELSE "rate"

\* lines 328-333
DcIrr5 ==
    /\ dc.pc = "irr5"
    /\ \E sale \in SaleInputs :
       \E d1 \in {[dc EXCEPT !.p.after_repair_value = sale[1],
                                !.p.selling_costs = sale[2]]} :
       \E cash_flows \in {IrrCashFlows(inputs_for_irr(d1), 5)} :
         LET d2 == [d1 EXCEPT !.cash_flows_5 =
                        IF cash_flows.raised = "none" THEN cash_flows.value
                        ELSE <<>>]
         IN  \E o \in calculate_irr_projection(inputs_for_irr(d1), 5) :
               LET d3 == [d2 EXCEPT !.solver_5 = SolverStatus(o, cash_flows)]
               IN  dc' = IF o.raised = "none"
                         THEN [d3 EXCEPT !.irr_5yr = o.value, !.pc = "irr10"]
                         ELSE IF o.raised \in Swallowed
                         THEN [d3 EXCEPT !.pc = "irr10"]
                         ELSE [d3 EXCEPT !.pc = "raised", !.raised = o.raised,
                                         !.raised_in =
                                             "calculate_irr_projection"]
    /\ UNCHANGED <<am, re, memo, pj>>

\* lines 334-337
DcIrr10 ==
    /\ dc.pc = "irr10"
    /\ \E cash_flows \in {IrrCashFlows(inputs_for_irr(dc), 10)} :
       LET d2 == [dc EXCEPT !.cash_flows_10 =
                      IF cash_flows.raised = "none" THEN cash_flows.value
                      ELSE <<>>]
       IN  \E o \in calculate_irr_projection(inputs_for_irr(dc), 10) :
             LET d3 == [d2 EXCEPT !.solver_10 = SolverStatus(o, cash_flows)]
             IN  dc' = IF o.raised = "none"
                       THEN [d3 EXCEPT !.irr_10yr = o.value, !.pc = "return"]
                       ELSE IF o.raised \in Swallowed
                       THEN [d3 EXCEPT !.pc = "return"]
                       ELSE [d3 EXCEPT !.pc = "raised", !.raised = o.raised,
                                       !.raised_in =
                                           "calculate_irr_projection"]
    /\ UNCHANGED <<am, re, memo, pj>>

\* lines 339-352
DcReturn ==
    /\ dc.pc = "return"
    /\ dc' = [dc EXCEPT
                !.result = [noi |-> dc.noi,
                            cap_rate |-> dc.cap_rate,
                            cash_on_cash |-> dc.cash_on_cash,
                            monthly_cash_flow |-> dc.monthly_cash_flow,
                            annual_cash_flow |-> dc.annual_cash_flow,
                            total_cash_invested |-> dc.total_cash_invested,
                            dscr |-> dc.dscr,
                            grm |-> dc.grm,
                            irr_5yr |-> dc.irr_5yr,
                            irr_10yr |-> dc.irr_10yr,
                            equity_buildup_5yr |-> dc.equity_5,
                            equity_buildup_10yr |-> dc.equity_10],
                !.pc = "done"]
    /\ UNCHANGED <<am, re, memo, pj>>

\* DealCalculator.calculate_cap_rate called directly (lines 79-85)
CapRateNois == {-1200, 0, 7392}
CapRateCall ==
    /\ dc.pc = "call"
    /\ \E noi \in CapRateNois, pp \in PurchasePrices :
         LET r == calculate_cap_rate(noi, pp)
             d1 == [dc EXCEPT !.p.purchase_price = pp, !.noi = noi]
         IN  dc' = IF r.raised # "none"
                   THEN [d1 EXCEPT !.pc = "cap_raised", !.raised = r.raised,
                                   !.raised_in = "calculate_cap_rate"]
                   ELSE [d1 EXCEPT !.pc = "cap_done", !.cap_rate = r.value]
    /\ UNCHANGED <<am, re, memo, pj>>

\* C3: whenever calculate_all returns, dscr is None exactly when the annual
\* debt service (12 x the resolved monthly mortgage) is 0 and cash_on_cash
\* is None exactly when total_cash_invested <= 0; and calculate_all never
\* raises out of either metric.
C3_NullByDefinition ==
    /\ dc.pc = "done" =>
          /\ dc.result.dscr = None <=> dc.monthly_mortgage * 12 = 0
          /\ dc.result.cash_on_cash = None <=> dc.total_cash_invested <= 0
    /\ dc.pc = "raised" =>
          dc.raised_in \notin {"calculate_dscr", "calculate_cash_on_cash"}

\* calculate_all returned with no debt service and nothing invested
C3_Witness ==
    /\ dc.pc = "done"
    /\ dc.monthly_mortgage * 12 = 0
    /\ dc.total_cash_invested <= 0
    /\ dc.result.dscr = None
    /\ dc.result.cash_on_cash = None

\* C4: calculate_all raises ValueError out of its validation, and returns no
\* metrics, for every purchase_price that is absent, zero or negative;
\* calculate_cap_rate raises ValueError for a purchase price <= 0.
C4_PriceRejected ==
    (dc.pc # "call" /\ (dc.p.purchase_price = None \/ dc.p.purchase_price <= 0))
        => /\ dc.raised = "ValueError"
           /\ dc.result = None
           /\ \/ dc.pc = "raised" /\ dc.raised_in = "calculate_all"
              \/ dc.pc = "cap_raised" /\ dc.raised_in = "calculate_cap_rate"

\* calculate_all rejected an absent purchase price
C4_Witness ==
    /\ dc.pc = "raised"
    /\ dc.p.purchase_price = None
    /\ dc.raised = "ValueError"

\* the ways an IRR computation fails
IrrFailed(status) == status \in {"ValueError", "ZeroDivisionError",
                                 "Overflow", "NaN"}

\* C5: when the IRR computation of a horizon fails, that horizon's irr is
\* None, calculate_all does not raise, the other horizon is still attempted
\* and the other metrics are returned unchanged.
C5_IrrFailuresIsolated ==
    /\ IrrFailed(dc.solver_5) =>
          /\ dc.pc # "raised"
          /\ dc.irr_5yr = None
          /\ dc.pc \in {"return", "done"} => dc.solver_10 # "none"
    /\ IrrFailed(dc.solver_10) =>
          /\ dc.pc # "raised"
          /\ dc.irr_10yr = None
    /\ (dc.pc = "done" /\ (IrrFailed(dc.solver_5) \/ IrrFailed(dc.solver_10)))
          => /\ dc.result.noi = dc.noi
             /\ dc.result.cap_rate = dc.cap_rate
             /\ dc.result.cash_on_cash = dc.cash_on_cash
             /\ dc.result.dscr = dc.dscr
             /\ dc.result.grm = dc.grm

\* a supplied value, or the default for an absent one
SuppliedOr(val, default) == IF val = None THEN default ELSE val

\* C6: a supplied loan_amount is used unchanged; an absent one is
\* purchase_price x (1 - down_payment_pct / 100) rounded to cents for every
\* supplied down_payment_pct, 0 included, and the default of 20% stands in
\* only for an absent down_payment_pct.
C6_LoanResolution ==
    (dc.pc # "cap_done" /\ dc.p.loan_amount # Unread) =>
        dc.loan_amount =
            IF dc.p.loan_amount # None THEN dc.p.loan_amount
            ELSE RoundHalfUp(dc.purchase_price
                             * (100 - SuppliedOr(dc.p.down_payment_pct, 20)),
                             100)

\* C27: in every result of calculate_all the capital adds up: the down
\* payment counted in total_cash_invested plus the resolved loan amount is
\* the purchase price, i.e. total_cash_invested - closing_costs -
\* rehab_costs + loan_amount = purchase_price, whether the loan is derived
\* from down_payment_pct or supplied by the caller (0 for an all-cash deal).
C27_CapitalStructure ==
    dc.pc = "done" =>
        dc.result.total_cash_invested - _d(dc.p.closing_costs)
            - _d(dc.p.rehab_costs) + dc.loan_amount = dc.purchase_price

\* C30: equity buildup is bounded and grows with the holding period: for a
\* loan > 0, 0 <= equity_buildup_5yr <= equity_buildup_10yr <= loan_amount,
\* each being loan_amount minus the balance remaining after that many years
\* (loan_amount once the term has elapsed); for a loan <= 0 both are 0.
C30_EquityBounds ==
    dc.pc \in {"irr5", "irr10", "return", "done"} =>
        IF dc.loan_amount > 0
        THEN /\ 0 <= dc.equity_5
             /\ dc.equity_5 <= dc.equity_10
             /\ dc.equity_10 <= dc.loan_amount
             /\ dc.equity_5 = dc.loan_amount
                    - calculate_remaining_balance(dc.loan_amount,
                          dc.interest_rate, dc.loan_term_years, 5).value
             /\ dc.equity_10 = dc.loan_amount
                    - calculate_remaining_balance(dc.loan_amount,
                          dc.interest_rate, dc.loan_term_years, 10).value
             /\ dc.loan_term_years <= 5 => dc.equity_5 = dc.loan_amount
             /\ dc.loan_term_years <= 10 => dc.equity_10 = dc.loan_amount
        ELSE dc.equity_5 = 0 /\ dc.equity_10 = 0

\* calculate_all returned for a 30-year loan at 6%, part of which was paid
\* down after 5 years and more after 10
C30_Witness ==
    /\ dc.pc = "done"
    /\ dc.loan_amount > 0
    /\ dc.interest_rate = 6
    /\ dc.loan_term_years = 30
    /\ 0 < dc.result.equity_buildup_5yr
    /\ dc.result.equity_buildup_5yr < dc.result.equity_buildup_10yr
    /\ dc.result.equity_buildup_10yr < dc.loan_amount

\* C7: vacancy loss, maintenance and management fee are gross_rent x pct /
\* 100 rounded to cents with the supplied percentage, 0 included; the
\* defaults 5, 5 and 10 stand in only for an absent percentage.
C7_LineItems ==
    dc.p.gross_monthly_rent # Unread =>
        LET gross == SuppliedOr(dc.p.gross_monthly_rent, 0)
        IN  /\ dc.vacancy_loss =
                 RoundHalfUp(gross * SuppliedOr(dc.p.vacancy_rate_pct, 5), 100)
            /\ dc.maintenance =
                 RoundHalfUp(gross * SuppliedOr(dc.p.maintenance_rate_pct, 5),
                             100)
            /\ dc.management =
                 RoundHalfUp(gross * SuppliedOr(dc.p.management_fee_pct, 10),
                             100)

\* the list C8 describes for a hold of N years
C8_Expected(N) ==
    LET sale_price == SuppliedOr(dc.p.after_repair_value, dc.purchase_price)
        selling_costs == SuppliedOr(dc.p.selling_costs, 0)
        remaining_balance ==
            IF dc.loan_amount > 0 /\ N < dc.loan_term_years
            THEN calculate_remaining_balance(dc.loan_amount, dc.interest_rate,
                                             dc.loan_term_years, N).value
            ELSE 0
        exit_proceeds == sale_price - selling_costs - remaining_balance
    IN  <<-dc.total_cash_invested>>
        \o [k \in 1..(N - 1) |-> dc.annual_cash_flow]
        \o <<dc.annual_cash_flow + exit_proceeds>>

\* C8: the list handed to the IRR solver for a hold of N years has N + 1
\* entries: -total_cash_invested, then annual_cash_flow N - 1 times, then
\* annual_cash_flow plus the exit proceeds (sale price - selling costs -
\* balance remaining after N years).
C8_CashFlowList ==
    /\ dc.cash_flows_5 # <<>> =>
          Len(dc.cash_flows_5) = 6 /\ dc.cash_flows_5 = C8_Expected(5)
    /\ dc.cash_flows_10 # <<>> =>
          Len(dc.cash_flows_10) = 11 /\ dc.cash_flows_10 = C8_Expected(10)

(***************************************************************************)
(* risk_engine.py.  A raw Decimal (a ratio, a percentage) is an integer in *)
(* units of 0.0001, a count of days or a year is itself, and a score is an *)
(* integer in units of 0.01.                                               *)
(***************************************************************************)

\* a key the dictionary does not hold
Absent == -2147483644

\* dict.get(key, default)
GetOr(val, default) == IF val = Absent THEN default ELSE val

Min2(a, b) == IF a <= b THEN a ELSE b

\* _clamp without its bounds: what C9 guards against
_clamp_Unbounded(num, den, lo, hi) == RoundHalfUp(num * 100, den)

\* _clamp(value, lo, hi) for value = num / den, den > 0, lo and hi in points
_clamp(num, den, lo, hi) ==
    IF num < lo * den THEN lo * 100
    ELSE IF num > hi * den THEN hi * 100
    ELSE RoundHalfUp(num * 100, den)

\* RISK_FACTORS with 0.25 for dscr_coverage, so that the weights sum to
\* 1.05: what C13 guards against
RISK_FACTORS_Dscr25 ==
    [dscr_coverage |-> 25, cash_on_cash |-> 15, vacancy_vs_market |-> 10,
     ltv_ratio |-> 10, market_appreciation |-> 10, rent_to_price |-> 10,
     property_age |-> 5, days_on_market |-> 5, population_growth |-> 5,
     concentration_risk |-> 5, expense_ratio |-> 5]

\* weights of RISK_FACTORS, in hundredths
RISK_FACTORS ==
    [dscr_coverage |-> 20, cash_on_cash |-> 15, vacancy_vs_market |-> 10,
     ltv_ratio |-> 10, market_appreciation |-> 10, rent_to_price |-> 10,
     property_age |-> 5, days_on_market |-> 5, population_growth |-> 5,
     concentration_risk |-> 5, expense_ratio |-> 5]

FactorNames == DOMAIN RISK_FACTORS

\* (1.5 - d) / 0.5 * 100 is (15000 - d) / 50 for d in units of 0.0001
_score_dscr(dscr) ==
    LET d == _d(dscr)
    IN  IF d >= 15000 THEN 0
        ELSE IF d <= 10000 THEN 10000
        ELSE _clamp(15000 - d, 50, 0, 100)

\* _score_cash_on_cash dividing by 10, the upper threshold, in place of 6,
\* the distance between the thresholds: what C10 guards against
_score_cash_on_cash_Over10(coc) ==
    LET c == _d(coc)
    IN  IF c >= 100000 THEN 0
        ELSE IF c <= 40000 THEN 10000
        ELSE _clamp(100000 - c, 1000, 0, 100)

\* (10 - c) / 6 * 100
_score_cash_on_cash(coc) ==
    LET c == _d(coc)
    IN  IF c >= 100000 THEN 0
        ELSE IF c <= 40000 THEN 10000
        ELSE _clamp(100000 - c, 600, 0, 100)

\* 50 + diff * 5
_score_vacancy(deal_vacancy, market_vacancy) ==
    LET d == _d(deal_vacancy)
        m == _d(market_vacancy)
        diff == d - m
    IN  _clamp(500000 + diff * 5, 10000, 0, 100)

\* (ltv - 80) / 20 * 100
_score_ltv(ltv) ==
    LET ltv_pct == _d(ltv)
    IN  IF ltv_pct <= 800000 THEN 0
        ELSE IF ltv_pct >= 1000000 THEN 10000
        ELSE _clamp(ltv_pct - 800000, 2000, 0, 100)

\* (5 - y) / 7 * 100
_score_market_appreciation(yoy_pct) ==
    LET y == _d(yoy_pct)
    IN  IF y >= 50000 THEN 0
        ELSE IF y <= -20000 THEN 10000
        ELSE _clamp(50000 - y, 700, 0, 100)

\* (1.0 - r) / 0.4 * 100
_score_rent_to_price(ratio) ==
    LET r == _d(ratio)
    IN  IF r >= 10000 THEN 0
        ELSE IF r <= 6000 THEN 10000
        ELSE _clamp(10000 - r, 40, 0, 100)

\* now_year is datetime.now().year; Decimal(age) / 50 * 50 is age
_score_property_age(year_built, now_year) ==
    IF year_built = None THEN 0
    ELSE LET age == now_year - year_built
         IN  IF age <= 0 THEN 0
             ELSE IF age >= 50
             THEN _clamp(Min2((age - 50) * 2 + 50, 100), 1, 0, 100)
             ELSE _clamp(age, 1, 0, 100)

\* (d - 90) / 90 * 100
_score_days_on_market(days) ==
    LET d == IF days # None THEN days ELSE 0
    IN  IF d <= 90 THEN 0
        ELSE _clamp((d - 90) * 10, 9, 0, 100)

\* (2 - g) / 3 * 100
_score_population_growth(growth_pct) ==
    LET g == _d(growth_pct)
    IN  IF g >= 20000 THEN 0
        ELSE IF g <= -10000 THEN 10000
        ELSE _clamp(20000 - g, 300, 0, 100)

\* min((p - 50) * 2, 100)
_score_concentration(pct_in_zip) ==
    LET p == _d(pct_in_zip)
    IN  IF p <= 500000 THEN 0
        ELSE _clamp(Min2((p - 500000) * 2, 1000000), 10000, 0, 100)

\* min((r - 55) * 2, 100)
_score_expense_ratio(ratio) ==
    LET r == _d(ratio)
    IN  IF r <= 550000 THEN 0
        ELSE _clamp(Min2((r - 550000) * 2, 1000000), 10000, 0, 100)

\* preview_deal after calculate_all has returned (routers/deals.py, lines
\* 171-181; create_deal and update_deal do the same): the metrics are laid
\* over the inputs and handed to calculate_risk_score, which scores
\* cash_on_cash in lines 284-288 of risk_engine.py
PreviewRisk ==
    /\ dc.pc = "done"
    /\ LET coc_val == dc.result.cash_on_cash
           coc_score == IF coc_val # None
                        THEN _score_cash_on_cash(_d(coc_val))
                        ELSE 0
       IN  dc' = [dc EXCEPT !.coc_score = coc_score, !.pc = "previewed"]
    /\ UNCHANGED <<am, re, memo, pj>>

DcNext ==
    \/ DcValidate \/ DcResolveLoan \/ DcResolveMortgage \/ DcIncome
    \/ DcInvested \/ DcRatios \/ DcEquity \/ DcIrr5 \/ DcIrr10 \/ DcReturn
    \/ CapRateCall \/ PreviewRisk

SpecDeal == DcInit /\ [][DcNext]_vars

\* C26: when the metrics of calculate_all go into calculate_risk_score the
\* way preview_deal hands them over, the cash_on_cash factor is scored on
\* the deal's return: 0 for a deal returning at least 10% of the cash
\* invested in a year, 100 for one returning at most 4%.
C26_CashOnCashUnit ==
    (dc.pc = "previewed" /\ dc.result.cash_on_cash # None) =>
        /\ dc.annual_cash_flow * 100 >= 10 * dc.total_cash_invested =>
              dc.coc_score = 0
        /\ dc.annual_cash_flow * 100 <= 4 * dc.total_cash_invested =>
              dc.coc_score = 10000

\* RiskLabel with the bands read as whole points (Low below 34, Moderate
\* below 67): what C11 guards against
RiskLabel_WholePoints(score) ==
    IF score < 3400 THEN "Low"
    ELSE IF score < 6700 THEN "Moderate"
    ELSE "High"

\* lines 344-349
RiskLabel(score) ==
    IF score <= 3300 THEN "Low"
    ELSE IF score <= 6600 THEN "Moderate"
    ELSE "High"

\* WeightedTotal without the weights, every factor counting in full: what
\* C23 guards against
RECURSIVE WeightedTotal_Unweighted(_, _)
WeightedTotal_Unweighted(factors, keys) ==
    IF keys = {} THEN 0
    ELSE LET key == CHOOSE k \in keys : TRUE
         IN  100 * factors[key]
             + WeightedTotal_Unweighted(factors, keys \ {key})

\* lines 338-341: total, in units of 0.0001
RECURSIVE WeightedTotal(_, _)
WeightedTotal(factors, keys) ==
    IF keys = {} THEN 0
    ELSE LET key == CHOOSE k \in keys : TRUE
         IN  RISK_FACTORS[key] * factors[key]
             + WeightedTotal(factors, keys \ {key})

\* The quotient num / den, den > 0, in units of 0.0001, digit by digit; it
\* is the Decimal quotient when no remainder is left (Terminates).
QuotientDigits(num, den) ==
    LET r0 == num % den
        r1 == (r0 * 10) % den
        r2 == (r1 * 10) % den
        r3 == (r2 * 10) % den
    IN  [q |-> (num \div den) * 10000 + ((r0 * 10) \div den) * 1000
               + ((r1 * 10) \div den) * 100 + ((r2 * 10) \div den) * 10
               + (r3 * 10) \div den,
         r |-> (r3 * 10) % den]

Quotient(num, den) == QuotientDigits(num, den).q
Terminates(num, den) == QuotientDigits(num, den).r = 0

\* lines 257-261: loan_amount / purchase_price * 100
LtvOf(purchase_price, loan_amount) ==
    IF purchase_price > 0 THEN Quotient(loan_amount * 100, purchase_price)
    ELSE 0

\* lines 262-267: gross_monthly_rent * 12 / purchase_price * 100
RentToPriceOf(purchase_price, gross_monthly_rent) ==
    IF purchase_price > 0
    THEN Quotient(gross_monthly_rent * 12 * 100, purchase_price)
    ELSE 0

\* lines 268-271, times 100: vacancy_rate_pct is a whole percentage here
EgiAnnualTimes100(gross_monthly_rent, vacancy_rate_pct, other_monthly_income) ==
    (gross_monthly_rent * (100 - vacancy_rate_pct \div 10000)
     + other_monthly_income * 100) * 12

\* lines 272-276: 100 * (1 - noi / egi_annual)
ExpenseRatioOf(noi, egi_annual_100) ==
    IF egi_annual_100 > 0
    THEN Quotient(100 * (egi_annual_100 - noi * 100), egi_annual_100)
    ELSE 0

(***************************************************************************)
(* RiskEngine.calculate_risk_score as a process.  re.dm, re.md and re.pd   *)
(* are deal_metrics, market_data and portfolio_data (a key is drawn when   *)
(* the code first reads it); re.now_year is what datetime.now().year       *)
(* answers.  market_data = None is the dictionary without its keys.        *)
(***************************************************************************)
\* <<purchase_price, loan_amount, gross_monthly_rent, vacancy_rate_pct,
\*   other_monthly_income, noi>>
\* kept if the three ratios have at most four decimals, so that the integers
\* of the model are the Decimals of the code
DealFinancials ==
    {f \in {<<100000, 60000, 1200, 0, None, 7200>>,
            <<100000, 90500, 75, 200000, None, 216>>,
            <<100000, 120000, 40, 300000, None, -336>>,
            <<None, None, 1200, None, None, 7200>>,
            <<100000, 80000, 85, 0, 15, 600>>,
            <<100000, 100000, None, 50000, None, 0>>,
            <<100000, 83330, 66, 70000, None, 0>>} :
        LET egi == EgiAnnualTimes100(_d(f[3]), _d(f[4]), _d(f[5]))
        IN  /\ _d(f[4]) % 10000 = 0
            /\ _d(f[1]) > 0 => /\ Terminates(_d(f[2]) * 100, _d(f[1]))
                               /\ Terminates(_d(f[3]) * 1200, _d(f[1]))
            /\ egi > 0 => Terminates(100 * (egi - _d(f[6]) * 100), egi)}

\* The Sheboygan duplex of the tests.  rent_to_price (11.6756...) and the
\* expense ratio (35.0877...) have more than four decimals, but both lie in
\* a constant branch of their scorers (>= 1 and <= 55), where the digits
\* dropped by Quotient change nothing.
SHEBOYGAN_DEAL_METRICS ==
    [purchase_price |-> 185000, loan_amount |-> 148000,
     gross_monthly_rent |-> 1800, vacancy_rate_pct |-> 50000,
     noi |-> 13320, cash_on_cash |-> 111000, dscr |-> 14500, grm |-> 86000,
     rent_to_price_ratio_pct |-> 9700, year_built |-> 1965,
     days_on_market |-> 45, expense_ratio_pct |-> 430000]

SHEBOYGAN_MARKET_DATA ==
    [avg_vacancy_rate_pct |-> 50000, yoy_appreciation_pct |-> 32000,
     population_growth_pct |-> 8000]

SHEBOYGAN_PORTFOLIO_DATA == [pct_in_zip |-> 350000]

\* the call under way is the one of test_calculate_risk_score_stub, whose
\* three dictionaries come together
Sheboygan == re.dm.purchase_price = SHEBOYGAN_DEAL_METRICS.purchase_price

Dscrs == {None, 9000, 12345, 20000}
CashOnCashes == {None, 800, 70000, 120000}
\* <<avg_vacancy_rate_pct, yoy_appreciation_pct>>
MarketData == {<<Absent, Absent>>, <<80000, -30000>>, <<30000, 60000>>,
               <<None, 25000>>}
YearsBuilt == {None, 1950, 2000, 2030}
DaysOnMarket == {None, 45, 120, 400}
CurrentYears == {2025, 2026}
\* <<population_growth_pct, pct_in_zip>>
PortfolioData == {<<Absent, Absent>>, <<-20000, 1000000>>, <<10000, 600000>>,
                  <<30000, 250000>>}

ReStart ==
    [pc |-> "call",
     dm |-> [purchase_price |-> Unread, loan_amount |-> Unread,
             gross_monthly_rent |-> Unread, noi |-> Unread,
             vacancy_rate_pct |-> Unread, other_monthly_income |-> Unread,
             dscr |-> Unread, cash_on_cash |-> Unread,
             year_built |-> Unread, days_on_market |-> Unread],
     md |-> [avg_vacancy_rate_pct |-> Unread, yoy_appreciation_pct |-> Unread],
     pd |-> [population_growth_pct |-> Unread, pct_in_zip |-> Unread],
     now_year |-> Unread,
     ltv |-> 0, rent_to_price_pct |-> 0, expense_ratio_pct |-> 0,
     factors |-> [k \in FactorNames |-> Unread],
     score |-> Unread, label |-> "none"]

ReInit ==
    /\ re = ReStart
    /\ am = Idle
    /\ dc = Idle
    /\ memo = NoMemo
    /\ pj = Idle

\* lines 246-276
ReDerive ==
    /\ re.pc = "call"
    /\ \E f \in DealFinancials
                 \cup {<<SHEBOYGAN_DEAL_METRICS.purchase_price,
                          SHEBOYGAN_DEAL_METRICS.loan_amount,
                          SHEBOYGAN_DEAL_METRICS.gross_monthly_rent,
                          SHEBOYGAN_DEAL_METRICS.vacancy_rate_pct, None,
                          SHEBOYGAN_DEAL_METRICS.noi>>} :
         LET purchase_price == _d(f[1])
             loan_amount == _d(f[2])
             gross_monthly_rent == _d(f[3])
             vacancy_rate_pct == _d(f[4])
             other_monthly_income == _d(f[5])
             noi == _d(f[6])
         IN  re' = [re EXCEPT
                      !.dm.purchase_price = f[1],
                      !.dm.loan_amount = f[2],
                      !.dm.gross_monthly_rent = f[3],
                      !.dm.vacancy_rate_pct = f[4],
                      !.dm.other_monthly_income = f[5],
                      !.dm.noi = f[6],
                      !.ltv = LtvOf(purchase_price, loan_amount),
                      !.rent_to_price_pct =
                          RentToPriceOf(purchase_price, gross_monthly_rent),
                      !.expense_ratio_pct =
                          ExpenseRatioOf(noi,
                              EgiAnnualTimes100(gross_monthly_rent,
                                  vacancy_rate_pct, other_monthly_income)),
                      !.pc = "deal"]
    /\ UNCHANGED <<am, dc, memo, pj>>

\* lines 278-295
ReScoreDeal ==
    /\ re.pc = "deal"
    /\ \E dscr_val \in
              (IF Sheboygan THEN {SHEBOYGAN_DEAL_METRICS.dscr} ELSE Dscrs),
          coc_val \in
              (IF Sheboygan THEN {SHEBOYGAN_DEAL_METRICS.cash_on_cash}
               ELSE CashOnCashes),
          md \in
              (IF Sheboygan
               THEN {<<SHEBOYGAN_MARKET_DATA.avg_vacancy_rate_pct,
                       SHEBOYGAN_MARKET_DATA.yoy_appreciation_pct>>}
               ELSE MarketData) :
         LET dscr_score == IF dscr_val # None THEN _score_dscr(_d(dscr_val))
                           ELSE 0
             coc_score == IF coc_val # None
                          THEN _score_cash_on_cash(_d(coc_val))
                          ELSE 0
             market_vacancy == _d(GetOr(md[1], 50000))
             yoy == _d(GetOr(md[2], 0))
         IN  re' = [re EXCEPT
                      !.dm.dscr = dscr_val,
                      !.dm.cash_on_cash = coc_val,
                      !.md.avg_vacancy_rate_pct = md[1],
                      !.md.yoy_appreciation_pct = md[2],
                      !.factors.dscr_coverage = dscr_score,
                      !.factors.cash_on_cash = coc_score,
                      !.factors.vacancy_vs_market =
                          _score_vacancy(_d(re.dm.vacancy_rate_pct),
                                         market_vacancy),
                      !.factors.ltv_ratio = _score_ltv(re.ltv),
                      !.factors.market_appreciation =
                          _score_market_appreciation(yoy),
                      !.factors.rent_to_price =
                          _score_rent_to_price(re.rent_to_price_pct),
                      !.pc = "property"]
    /\ UNCHANGED <<am, dc, memo, pj>>

\* lines 297-313
ReScoreProperty ==
    /\ re.pc = "property"
    /\ \E yb \in
              (IF Sheboygan THEN {SHEBOYGAN_DEAL_METRICS.year_built}
               ELSE YearsBuilt),
          dom \in
              (IF Sheboygan THEN {SHEBOYGAN_DEAL_METRICS.days_on_market}
               ELSE DaysOnMarket),
          now \in CurrentYears :
         LET year_built == OrDefault(yb, 0)
             days_on_market == IF dom # None THEN dom ELSE 0
         IN  re' = [re EXCEPT
                      !.dm.year_built = yb,
                      !.dm.days_on_market = dom,
                      !.now_year = now,
                      !.factors.property_age =
                          _score_property_age(year_built, now),
                      !.factors.days_on_market =
                          _score_days_on_market(days_on_market),
                      !.pc = "portfolio"]
    /\ UNCHANGED <<am, dc, memo, pj>>

\* lines 315-319
ReScorePortfolio ==
    /\ re.pc = "portfolio"
    /\ \E pd \in
              (IF Sheboygan
               THEN {<<Absent, SHEBOYGAN_PORTFOLIO_DATA.pct_in_zip>>}
               ELSE PortfolioData) :
         LET pop_growth == _d(GetOr(pd[1], 0))
             pct_zip == _d(GetOr(pd[2], 0))
         IN  re' = [re EXCEPT
                      !.pd.population_growth_pct = pd[1],
                      !.pd.pct_in_zip = pd[2],
                      !.factors.population_growth =
                          _score_population_growth(pop_growth),
                      !.factors.concentration_risk =
                          _score_concentration(pct_zip),
                      !.factors.expense_ratio =
                          _score_expense_ratio(re.expense_ratio_pct),
                      !.pc = "total"]
    /\ UNCHANGED <<am, dc, memo, pj>>

\* lines 321-355
ReTotal ==
    /\ re.pc = "total"
    /\ LET total == WeightedTotal(re.factors, FactorNames)
           score == _clamp(total, 10000, 0, 100)
       IN  re' = [re EXCEPT !.score = score, !.label = RiskLabel(score),
                            !.pc = "done"]
    /\ UNCHANGED <<am, dc, memo, pj>>

ReNext ==
    ReDerive \/ ReScoreDeal \/ ReScoreProperty \/ ReScorePortfolio \/ ReTotal

SpecRisk == ReInit /\ [][ReNext]_vars

\* C9: whatever calculate_risk_score is given, each of the 11 factor scores
\* is in [0, 100] and so is the composite score.
C9_ScoresInRange ==
    /\ \A k \in FactorNames :
         re.factors[k] # Unread => re.factors[k] \in 0..10000
    /\ re.score # Unread => re.score \in 0..10000

\* a score was returned in which _clamp cut a factor down to 100
C9_Witness ==
    /\ re.pc = "done"
    /\ 500000 + (_d(re.dm.vacancy_rate_pct)
                 - _d(GetOr(re.md.avg_vacancy_rate_pct, 50000))) * 5 > 1000000
    /\ re.factors.vacancy_vs_market = 10000
    /\ re.score \in 1..10000

\* C11 as stated: Low exactly when score <= 33, Moderate exactly when the
\* score is in 34..66, High exactly when score >= 67.
C11_LabelBands ==
    re.pc = "done" =>
        /\ re.label = "Low" <=> re.score <= 3300
        /\ re.label = "Moderate" <=> re.score \in 3400..6600
        /\ re.label = "High" <=> re.score >= 6700

\* C11 amended: the label is a function of the composite score alone, Low
\* exactly when score <= 33, Moderate exactly when 33 < score <= 66, High
\* exactly when score > 66 (a score carries two decimals, so 33.01..33.99
\* are Moderate and 66.01..66.99 are High).
C11_LabelThresholds ==
    re.pc = "done" =>
        /\ re.label \in {"Low", "Moderate", "High"}
        /\ re.label = "Low" <=> re.score <= 3300
        /\ re.label = "Moderate" <=> (re.score > 3300 /\ re.score <= 6600)
        /\ re.label = "High" <=> re.score > 6600

\* a score strictly between 33 and 34 was returned, labelled Moderate
C11_Witness ==
    /\ re.pc = "done"
    /\ re.score \in 3301..3399
    /\ re.label = "Moderate"

\* a raw value the caller did not supply: the key is missing or holds None
Missing(val) == val \in {None, Absent}

\* C12: when calculate_risk_score returns, every factor whose supporting raw
\* value was missing (dscr, cash_on_cash, year_built, days_on_market, market
\* vacancy, yoy appreciation, population growth, pct_in_zip) has the score 0
\* or the midpoint 50, never a higher-risk score.
C12_MissingIsNeutral ==
    LET Neutral(key) == re.factors[key] \in {0, 5000}
    IN  re.pc = "done" =>
          /\ Missing(re.dm.dscr) => Neutral("dscr_coverage")
          /\ Missing(re.dm.cash_on_cash) => Neutral("cash_on_cash")
          /\ Missing(re.dm.year_built) => Neutral("property_age")
          /\ Missing(re.dm.days_on_market) => Neutral("days_on_market")
          /\ Missing(re.md.avg_vacancy_rate_pct)
                => Neutral("vacancy_vs_market")
          /\ Missing(re.md.yoy_appreciation_pct)
                => Neutral("market_appreciation")
          /\ Missing(re.pd.population_growth_pct)
                => Neutral("population_growth")
          /\ Missing(re.pd.pct_in_zip) => Neutral("concentration_risk")

\* C13: the composite score is the sum over the 11 factors of weight x
\* factor score (weights 0.20, 0.15, four of 0.10, five of 0.05), clamped to
\* [0, 100] and rounded half-up to 2 decimals; the weights sum to exactly
\* 1.00; the factor breakdown holds exactly the 11 names.
C13_WeightedSum ==
    LET f == re.factors
        \* in units of 0.0001
        sum == 20 * f.dscr_coverage + 15 * f.cash_on_cash
               + 10 * (f.vacancy_vs_market + f.ltv_ratio
                       + f.market_appreciation + f.rent_to_price)
               + 5 * (f.property_age + f.days_on_market + f.population_growth
                      + f.concentration_risk + f.expense_ratio)
        names == {"dscr_coverage", "cash_on_cash", "vacancy_vs_market",
                  "ltv_ratio", "market_appreciation", "rent_to_price",
                  "property_age", "days_on_market", "population_growth",
                  "concentration_risk", "expense_ratio"}
    IN  /\ DOMAIN re.factors = names
        /\ Cardinality(names) = 11
        /\ DOMAIN RISK_FACTORS = names
        /\ WeightedTotal([k \in names |-> 1], names) = 100
        /\ re.pc = "done" =>
              re.score = IF sum < 0 THEN 0
                         ELSE IF sum > 1000000 THEN 10000
                         ELSE (sum + 50) \div 100

\* a composite score was returned whose weighted sum 33.571 was rounded
C13_Witness ==
    /\ re.pc = "done"
    /\ re.factors.market_appreciation = 3571
    /\ WeightedTotal(re.factors, FactorNames) = 335710
    /\ re.score = 3357

\* C14: the result depends on the arguments alone: an invocation with the
\* same deal_metrics, market_data and portfolio_data at any other date
\* (datetime.now().year in CurrentYears) returns the same property_age
\* score, composite score and label.
C14_SameArgumentsSameResult ==
    re.pc = "done" =>
        \A now \in CurrentYears :
            LET age_score == _score_property_age(
                                 OrDefault(re.dm.year_built, 0), now)
                factors == [re.factors EXCEPT !.property_age = age_score]
                score == _clamp(WeightedTotal(factors, FactorNames),
                                10000, 0, 100)
            IN  /\ age_score = re.factors.property_age
                /\ score = re.score
                /\ RiskLabel(score) = re.label

(***************************************************************************)
(* The eleven scoring functions, each called on its own: re.raw is the     *)
(* argument and re.other the second argument of the two that have one      *)
(* (the market vacancy, the current year).                                 *)
(***************************************************************************)
GridPoints == 12

\* lo, hi, and GridPoints + 5 equidistant values from below lo to above hi
Grid(lo, hi) ==
    {lo, hi} \cup {lo + k * ((hi - lo) \div GridPoints) :
                     k \in -2..(GridPoints + 2)}

FactorGrid ==
    [dscr_coverage |-> Grid(10000, 15000),
     cash_on_cash |-> Grid(40000, 100000),
     vacancy_vs_market |-> Grid(0, 240000),
     ltv_ratio |-> Grid(800000, 1000000),
     market_appreciation |-> Grid(-20000, 50000),
     rent_to_price |-> Grid(6000, 10000),
     property_age |-> Grid(1966, 2026),
     days_on_market |-> Grid(90, 180),
     population_growth |-> Grid(-10000, 20000),
     concentration_risk |-> Grid(500000, 1000000),
     expense_ratio |-> Grid(550000, 1050000)]

SecondArgs(factor) ==
    IF factor = "vacancy_vs_market" THEN {50000, 80000}
    ELSE IF factor = "property_age" THEN CurrentYears
    ELSE {0}

FcInit ==
    /\ re \in UNION {[pc : {"raw"}, factor : {f}, raw : FactorGrid[f],
                      other : SecondArgs(f), score : {Unread}] :
                     f \in FactorNames}
    /\ am = Idle
    /\ dc = Idle
    /\ memo = NoMemo
    /\ pj = Idle

FcCalled(factor) == re.pc = "raw" /\ re.factor = factor

FcReturn(score) ==
    /\ re' = [re EXCEPT !.score = score, !.pc = "scored"]
    /\ UNCHANGED <<am, dc, memo, pj>>

FcDscr == FcCalled("dscr_coverage") /\ FcReturn(_score_dscr(re.raw))

FcCashOnCash ==
    FcCalled("cash_on_cash") /\ FcReturn(_score_cash_on_cash(re.raw))

FcVacancy ==
    FcCalled("vacancy_vs_market") /\ FcReturn(_score_vacancy(re.raw, re.other))

FcLtv == FcCalled("ltv_ratio") /\ FcReturn(_score_ltv(re.raw))

FcMarketAppreciation ==
    FcCalled("market_appreciation")
    /\ FcReturn(_score_market_appreciation(re.raw))

FcRentToPrice ==
    FcCalled("rent_to_price") /\ FcReturn(_score_rent_to_price(re.raw))

FcPropertyAge ==
    FcCalled("property_age")
    /\ FcReturn(_score_property_age(re.raw, re.other))

FcDaysOnMarket ==
    FcCalled("days_on_market") /\ FcReturn(_score_days_on_market(re.raw))

FcPopulationGrowth ==
    FcCalled("population_growth")
    /\ FcReturn(_score_population_growth(re.raw))

FcConcentration ==
    FcCalled("concentration_risk") /\ FcReturn(_score_concentration(re.raw))

FcExpenseRatio ==
    FcCalled("expense_ratio") /\ FcReturn(_score_expense_ratio(re.raw))

FcNext ==
    \/ FcDscr \/ FcCashOnCash \/ FcVacancy \/ FcLtv \/ FcMarketAppreciation
    \/ FcRentToPrice \/ FcPropertyAge \/ FcDaysOnMarket
    \/ FcPopulationGrowth \/ FcConcentration \/ FcExpenseRatio

SpecFactor == FcInit /\ [][FcNext]_vars

RECURSIVE GCD(_, _)
GCD(a, b) == IF b = 0 THEN a ELSE GCD(b, a % b)

\* the score, rounded to 2 decimals, on the line from 0 at x0 to 100 at x1
Rising(x, x0, x1) ==
    LET g == GCD(10000, x1 - x0)
    IN  RoundHalfUp((10000 \div g) * (x - x0), (x1 - x0) \div g)

\* the score, rounded to 2 decimals, on the line from 100 at x0 to 0 at x1
Falling(x, x0, x1) ==
    LET g == GCD(10000, x1 - x0)
    IN  RoundHalfUp((10000 \div g) * (x1 - x), (x1 - x0) \div g)

FcScored(factor) == re.pc = "scored" /\ re.factor = factor

\* C10: _score_dscr is 100 at 1.0 and 0 at 1.5, _score_cash_on_cash 100 at 4
\* and 0 at 10, _score_ltv 0 at 80, _score_days_on_market 0 at 90,
\* _score_expense_ratio 0 at 55 and _score_concentration 0 at 50; strictly
\* between its thresholds each is the linear interpolation, rounded to 2
\* decimals (falling from 100 to 0 for dscr and cash-on-cash, rising from 0
\* to 100 at ltv 100, 180 days, expense ratio 105 and concentration 100).
C10_BoundariesAndLinearity ==
    /\ FcScored("dscr_coverage") =>
          /\ re.raw = 10000 => re.score = 10000
          /\ re.raw = 15000 => re.score = 0
          /\ re.raw \in 10001..14999 =>
                re.score = Falling(re.raw, 10000, 15000)
    /\ FcScored("cash_on_cash") =>
          /\ re.raw = 40000 => re.score = 10000
          /\ re.raw = 100000 => re.score = 0
          /\ re.raw \in 40001..99999 =>
                re.score = Falling(re.raw, 40000, 100000)
    /\ FcScored("ltv_ratio") =>
          /\ re.raw = 800000 => re.score = 0
          /\ re.raw \in 800001..999999 =>
                re.score = Rising(re.raw, 800000, 1000000)
    /\ FcScored("days_on_market") =>
          /\ re.raw = 90 => re.score = 0
          /\ re.raw \in 91..179 => re.score = Rising(re.raw, 90, 180)
    /\ FcScored("expense_ratio") =>
          /\ re.raw = 550000 => re.score = 0
          /\ re.raw \in 550001..1049999 =>
                re.score = Rising(re.raw, 550000, 1050000)
    /\ FcScored("concentration_risk") =>
          /\ re.raw = 500000 => re.score = 0
          /\ re.raw \in 500001..999999 =>
                re.score = Rising(re.raw, 500000, 1000000)

\* _score_cash_on_cash was called strictly between its thresholds, where the
\* line is not at a multiple of 0.01
C10_Witness ==
    /\ FcScored("cash_on_cash")
    /\ re.raw = 45000
    /\ re.score = 9167


(***************************************************************************)
(* projections.py.  Money is in cents, the growth and selling-cost         *)
(* percentages are whole percents, an IRR is in units of 0.0001.           *)
(***************************************************************************)

\* sum(m[key] for m in schedule[lo:hi]), rows lo+1..hi (lines 75-80)
RECURSIVE SumOver(_, _, _, _)
SumOver(schedule, key, lo, hi) ==
    IF lo >= hi THEN 0
    ELSE schedule[hi][key] + SumOver(schedule, key, lo, hi - 1)

\* _aggregate_amortization_annual without the early return of lines 45-54
\* for loan_amount <= 0: what C18 guards against
_aggregate_amortization_annual_NoEarlyReturn(loan_amount, annual_rate, term_years, projection_years) ==
    LET zero(y) == [year |-> y, principal_paid |-> 0, interest_paid |-> 0,
                    ending_balance |-> 0]
        Annual(schedule) ==
            [year \in 1..projection_years |->
                LET start == (year - 1) * 12
                    end == Min2(year * 12, Len(schedule))
                IN  IF start >= Len(schedule) THEN zero(year)
                    ELSE [year |-> year,
                          principal_paid |->
                              SumOver(schedule, "principal", start, end),
                          interest_paid |->
                              SumOver(schedule, "interest", start, end),
                          ending_balance |->
                              schedule[end].remaining_balance]]
        Built(schedule) ==
            IF schedule.raised # "none"
            THEN [raised |-> schedule.raised, consulted |-> TRUE]
            ELSE [raised |-> "none", consulted |-> TRUE,
                  value |-> Annual(schedule.value)]
    IN  Built(calculate_amortization_schedule(loan_amount, annual_rate,
                                              term_years))

\* _aggregate_amortization_annual without the `if not months` branch of
\* lines 64-73, a year after the payoff repeating the last year of the
\* schedule: what C21 guards against
_aggregate_amortization_annual_NoPayoff(loan_amount, annual_rate, term_years, projection_years) ==
    LET zero(y) == [year |-> y, principal_paid |-> 0, interest_paid |-> 0,
                    ending_balance |-> 0]
        Annual(schedule) ==
            [year \in 1..projection_years |->
                LET end == Min2(year * 12, Len(schedule))
                    start == end - 12
                IN  [year |-> year,
                     principal_paid |->
                         SumOver(schedule, "principal", start, end),
                     interest_paid |->
                         SumOver(schedule, "interest", start, end),
                     ending_balance |-> schedule[end].remaining_balance]]
        Built(schedule) ==
            IF schedule.raised # "none"
            THEN [raised |-> schedule.raised, consulted |-> TRUE]
            ELSE [raised |-> "none", consulted |-> TRUE,
                  value |-> Annual(schedule.value)]
    IN  IF loan_amount <= 0
        THEN [raised |-> "none", consulted |-> FALSE,
              value |-> [y \in 1..projection_years |-> zero(y)]]
        ELSE Built(calculate_amortization_schedule(loan_amount, annual_rate,
                                                   term_years))

\* lines 43-91; `consulted` tells whether the schedule was built (line 56)
_aggregate_amortization_annual(loan_amount, annual_rate, term_years, projection_years) ==
    LET zero(y) == [year |-> y, principal_paid |-> 0, interest_paid |-> 0,
                    ending_balance |-> 0]
        Annual(schedule) ==
            [year \in 1..projection_years |->
                LET start == (year - 1) * 12
                    end == Min2(year * 12, Len(schedule))
                IN  IF start >= Len(schedule) THEN zero(year)
                    ELSE [year |-> year,
                          principal_paid |->
                              SumOver(schedule, "principal", start, end),
                          interest_paid |->
                              SumOver(schedule, "interest", start, end),
                          ending_balance |->
                              schedule[end].remaining_balance]]
        Built(schedule) ==
            IF schedule.raised # "none"
            THEN [raised |-> schedule.raised, consulted |-> TRUE]
            ELSE [raised |-> "none", consulted |-> TRUE,
                  value |-> Annual(schedule.value)]
    IN  IF loan_amount <= 0
        THEN [raised |-> "none", consulted |-> FALSE,
              value |-> [y \in 1..projection_years |-> zero(y)]]
        ELSE Built(calculate_amortization_schedule(loan_amount, annual_rate,
                                                   term_years))

\* (amount * (1 + pct / 100) ** k).quantize(0.01, ROUND_HALF_UP) for an
\* amount >= 0, 0 <= pct <= 100 and 0 <= k <= 10 (lines 189-191, 203-212)
Compound(amount, pct, k) ==
    BigRoundHalfUp(BigMul(BigPow(100 + pct, k), BigOfInt(amount)),
                   BigPow(100, k), amount * 1024)

\* PropertyValue with Python's `annual_appreciation_pct or 3`, the route's
\* default growth standing in for a zero: what C22 guards against
PropertyValue_OrDefault(purchase_price, annual_appreciation_pct, year) ==
    Compound(_d(purchase_price), OrDefault(annual_appreciation_pct, 3), year)

\* lines 173, 189-191
PropertyValue(purchase_price, annual_appreciation_pct, year) ==
    Compound(_d(purchase_price), _d(annual_appreciation_pct), year)

\* lines 114-135: the possible results
_compute_irr(total_cash_invested, yearly_net_cashflows, yearly_balances, yearly_values, hold_years, selling_cost_pct) ==
    IF hold_years > Len(yearly_net_cashflows) THEN {Ok(None)}
    ELSE IF total_cash_invested <= 0 THEN {Ok(None)}
    ELSE LET exit_value == yearly_values[hold_years]
             exit_balance == yearly_balances[hold_years]
             exit_proceeds ==
                 RoundHalfUp(exit_value * (100 - selling_cost_pct)
                             - exit_balance * 100, 100)
             cash_flows ==
                 <<-total_cash_invested>>
                 \o SubSeq(yearly_net_cashflows, 1, hold_years - 1)
                 \o <<yearly_net_cashflows[hold_years] + exit_proceeds>>
         IN  {IF o.raised \in Swallowed THEN Ok(None) ELSE o :
                o \in calculate_irr(cash_flows)}

\* NetCashFlow without the mortgage: what C20 guards against
NetCashFlow_NoMortgage(annual_gross_rent, annual_expenses, annual_mortgage_payment) ==
    annual_gross_rent - annual_expenses

\* lines 218-220
NetCashFlow(annual_gross_rent, annual_expenses, annual_mortgage_payment) ==
    annual_gross_rent - annual_expenses - annual_mortgage_payment

(***************************************************************************)
(* compute_yearly_projections as a process.  pj.a holds the arguments (an  *)
(* argument is drawn when the code first reads it).                        *)
(***************************************************************************)
PjInit ==
    /\ pj = [pc |-> "call",
             a |-> [purchase_price |-> Unread, loan_amount |-> Unread,
                    annual_interest_rate |-> Unread,
                    loan_term_years |-> Unread, monthly_mortgage |-> Unread,
                    gross_monthly_rent |-> Unread,
                    base_monthly_expenses |-> Unread,
                    total_cash_invested |-> Unread,
                    projection_years |-> Unread,
                    annual_appreciation_pct |-> Unread,
                    annual_rent_growth_pct |-> Unread,
                    annual_expense_growth_pct |-> Unread,
                    selling_cost_pct |-> Unread],
             amort |-> <<>>, consulted |-> FALSE, yearly |-> <<>>,
             cumulative_cf |-> 0, irr_5yr |-> Unread, irr_10yr |-> Unread,
             raised |-> "none"]
    /\ am = Idle
    /\ dc = Idle
    /\ re = Idle
    /\ memo = NoMemo

\* lines 173-175
PjRates ==
    /\ pj.pc = "call"
    /\ \E appreciation \in {0, 3},
          growth \in {<<None, None>>, <<0, 0>>, <<2, 3>>} :
         pj' = [pj EXCEPT !.a.annual_appreciation_pct = appreciation,
                          !.a.annual_rent_growth_pct = growth[1],
                          !.a.annual_expense_growth_pct = growth[2],
                          !.pc = "aggregate"]
    /\ UNCHANGED <<am, dc, re, memo>>

\* lines 177-185
PjAggregate ==
    /\ pj.pc = "aggregate"
    /\ \E loan \in {<<-5000, 6, 7>>, <<0, 6, 7>>, <<800000, 0, 2>>,
                    <<800000, 6, 2>>, <<800000, 6, 7>>},
          projection_years \in {3, 5, 10} :
       \E loan_amount \in {loan[1]}, annual_interest_rate \in {loan[2]},
          loan_term_years \in {loan[3]} :
       \E amort \in {_aggregate_amortization_annual(loan_amount,
                        annual_interest_rate, loan_term_years,
                        projection_years)} :
       \E p1 \in {[pj EXCEPT !.a.loan_amount = loan_amount,
                             !.a.annual_interest_rate = annual_interest_rate,
                             !.a.loan_term_years = loan_term_years,
                             !.a.projection_years = projection_years,
                             !.consulted = amort.consulted]} :
         pj' = IF amort.raised # "none"
               THEN [p1 EXCEPT !.pc = "raised", !.raised = amort.raised]
               ELSE [p1 EXCEPT !.amort = amort.value, !.pc = "loop"]
    /\ UNCHANGED <<am, dc, re, memo>>

\* lines 187-244: one iteration of the loop over the years
PjYear ==
    /\ pj.pc = "loop"
    /\ Len(pj.yearly) < pj.a.projection_years
    /\ \E year \in {Len(pj.yearly) + 1} :
       \E income \in
              (IF year = 1
               THEN {<<1000000, 10000, 4000, 11687>>,
                     <<750000, 5000, 5000, 0>>,
                     <<1000000, None, None, None>>}
               ELSE {<<pj.a.purchase_price, pj.a.gross_monthly_rent,
                       pj.a.base_monthly_expenses, pj.a.monthly_mortgage>>}) :
       \E purchase_price \in {income[1]}, gross_monthly_rent \in {income[2]},
          base_monthly_expenses \in {income[3]},
          monthly_mortgage \in {income[4]} :
       \E property_value \in
              {PropertyValue(purchase_price, pj.a.annual_appreciation_pct,
                             year)},
          annual_gross_rent \in
              {Compound(_d(gross_monthly_rent) * 12,
                        _d(pj.a.annual_rent_growth_pct), year - 1)},
          annual_expenses \in
              {Compound(_d(base_monthly_expenses) * 12,
                        _d(pj.a.annual_expense_growth_pct), year - 1)} :
         LET amort_year == pj.amort[year]
             loan_balance == amort_year.ending_balance
             equity == property_value - loan_balance
             annual_mortgage_payment == _d(monthly_mortgage) * 12
             annual_net_cash_flow ==
                 NetCashFlow(annual_gross_rent, annual_expenses,
                             annual_mortgage_payment)
             cumulative_cf == pj.cumulative_cf + annual_net_cash_flow
             row == [year |-> year,
                     property_value |-> property_value,
                     loan_balance |-> loan_balance,
                     equity |-> equity,
                     principal_paid |-> amort_year.principal_paid,
                     interest_paid |-> amort_year.interest_paid,
                     annual_gross_rent |-> annual_gross_rent,
                     annual_expenses |-> annual_expenses,
                     annual_mortgage_payment |-> annual_mortgage_payment,
                     annual_net_cash_flow |-> annual_net_cash_flow,
                     cumulative_cash_flow |-> cumulative_cf]
         IN  pj' = [pj EXCEPT !.a.purchase_price = purchase_price,
                              !.a.gross_monthly_rent = gross_monthly_rent,
                              !.a.base_monthly_expenses =
                                  base_monthly_expenses,
                              !.a.monthly_mortgage = monthly_mortgage,
                              !.cumulative_cf = cumulative_cf,
                              !.yearly = Append(pj.yearly, row)]
    /\ UNCHANGED <<am, dc, re, memo>>

\* lines 246-257 (hold_years = 5) and 258-269 (hold_years = 10)
PjIrr(hold_years) ==
    /\ pj.pc = "loop"
    /\ Len(pj.yearly) = pj.a.projection_years
    /\ (IF hold_years = 5 THEN pj.irr_5yr = Unread
        ELSE pj.irr_5yr # Unread /\ pj.irr_10yr = Unread)
    /\ \E exit \in
              (IF hold_years = 5
               THEN {<<None, None>>, <<0, 6>>, <<-50000, 6>>, <<200000, 6>>}
               ELSE {<<pj.a.total_cash_invested, pj.a.selling_cost_pct>>}) :
       \E total_cash_invested \in {exit[1]}, selling_cost_pct \in {exit[2]} :
       \E p1 \in {[pj EXCEPT !.a.total_cash_invested = total_cash_invested,
                             !.a.selling_cost_pct = selling_cost_pct]} :
       \E o \in (IF pj.a.projection_years >= hold_years
                 THEN _compute_irr(_d(total_cash_invested),
                          [i \in 1..Len(pj.yearly) |->
                              pj.yearly[i].annual_net_cash_flow],
                          [i \in 1..Len(pj.yearly) |->
                              pj.yearly[i].loan_balance],
                          [i \in 1..Len(pj.yearly) |->
                              pj.yearly[i].property_value],
                          hold_years, _d(selling_cost_pct))
                 ELSE {Ok(None)}) :
         pj' = IF o.raised # "none"
               THEN [p1 EXCEPT !.pc = "raised", !.raised = o.raised]
               ELSE IF hold_years = 5 THEN [p1 EXCEPT !.irr_5yr = o.value]
               ELSE [p1 EXCEPT !.irr_10yr = o.value]
    /\ UNCHANGED <<am, dc, re, memo>>

\* line 271
PjReturn ==
    /\ pj.pc = "loop"
    /\ pj.irr_5yr # Unread /\ pj.irr_10yr # Unread
    /\ pj' = [pj EXCEPT !.pc = "done"]
    /\ UNCHANGED <<am, dc, re, memo>>

PjNext ==
    PjRates \/ PjAggregate \/ PjYear \/ PjIrr(5) \/ PjIrr(10) \/ PjReturn

SpecProj == PjInit /\ [][PjNext]_vars

\* C18: for an all-cash deal (loan_amount <= 0) every row of the projection
\* has loan_balance = 0, principal_paid = 0, interest_paid = 0 and equity
\* equal to property_value, whatever the horizon and the assumptions, and
\* the amortization schedule is not consulted.
C18_AllCashRows ==
    (pj.a.loan_amount # Unread /\ pj.a.loan_amount <= 0) =>
        /\ ~pj.consulted
        /\ \A i \in 1..Len(pj.yearly) :
              /\ pj.yearly[i].loan_balance = 0
              /\ pj.yearly[i].principal_paid = 0
              /\ pj.yearly[i].interest_paid = 0
              /\ pj.yearly[i].equity = pj.yearly[i].property_value

\* a 10-year projection of an all-cash deal was returned, the value having
\* appreciated
C18_Witness ==
    /\ pj.pc = "done"
    /\ pj.a.loan_amount <= 0
    /\ Len(pj.yearly) = 10
    /\ pj.yearly[10].property_value > pj.a.purchase_price
    /\ pj.yearly[10].equity = pj.yearly[10].property_value

\* C19: when compute_yearly_projections returns, irr_10yr is None if the
\* horizon is below 10 years, irr_5yr is None if it is below 5, and both are
\* None if total_cash_invested <= 0; and the function never raises, not
\* even when the IRR solver fails.
C19_IrrAbsent ==
    /\ pj.pc = "done" =>
          /\ pj.a.projection_years < 10 => pj.irr_10yr = None
          /\ pj.a.projection_years < 5 => pj.irr_5yr = None
          /\ _d(pj.a.total_cash_invested) <= 0 =>
                pj.irr_5yr = None /\ pj.irr_10yr = None
    /\ pj.pc # "raised"

\* C20: in every projection, row y has annual_net_cash_flow =
\* annual_gross_rent - annual_expenses - annual_mortgage_payment and
\* cumulative_cash_flow = the sum of annual_net_cash_flow over rows 1..y;
\* the result has exactly `horizon` rows, with year = 1..horizon in order.
C20_CashFlowRows ==
    /\ \A y \in 1..Len(pj.yearly) :
          LET row == pj.yearly[y]
          IN  /\ row.year = y
              /\ row.annual_net_cash_flow =
                    row.annual_gross_rent - row.annual_expenses
                    - row.annual_mortgage_payment
              /\ row.cumulative_cash_flow =
                    SumOver(pj.yearly, "annual_net_cash_flow", 0, y)
    /\ pj.pc = "done" => Len(pj.yearly) = pj.a.projection_years

\* a 10-year projection was returned whose net cash flow changes from year
\* to year and is reduced by a mortgage payment
C20_Witness ==
    /\ pj.pc = "done"
    /\ Len(pj.yearly) = 10
    /\ pj.yearly[1].annual_mortgage_payment > 0
    /\ pj.yearly[2].annual_net_cash_flow # pj.yearly[1].annual_net_cash_flow
    /\ pj.yearly[10].cumulative_cash_flow
         # 10 * pj.yearly[1].annual_net_cash_flow

\* C21: for a financed deal whose loan term is shorter than the projection
\* horizon, every row of a year after the loan term has principal_paid = 0,
\* interest_paid = 0 and loan_balance = 0; and once loan_balance is 0 in
\* some year it is 0 in every later year.
C21_PaidOffRows ==
    (pj.a.loan_amount # Unread /\ pj.a.loan_amount > 0) =>
        /\ \A y \in 1..Len(pj.yearly) :
              y > pj.a.loan_term_years =>
                  /\ pj.yearly[y].principal_paid = 0
                  /\ pj.yearly[y].interest_paid = 0
                  /\ pj.yearly[y].loan_balance = 0
        /\ \A x, y \in 1..Len(pj.yearly) :
              (x < y /\ pj.yearly[x].loan_balance = 0) =>
                  pj.yearly[y].loan_balance = 0

\* a 10-year projection of a loan that bears interest and is paid off in
\* year 7 was returned: principal and interest were paid in year 7, none in
\* year 8
C21_Witness ==
    /\ pj.pc = "done"
    /\ pj.a.loan_amount > 0
    /\ pj.a.loan_term_years = 7
    /\ Len(pj.yearly) = 10
    /\ pj.yearly[7].principal_paid > 0
    /\ pj.yearly[7].interest_paid > 0
    /\ pj.yearly[8].principal_paid = 0
    /\ pj.yearly[8].loan_balance = 0

\* C22: with an annual appreciation of 0%, property_value in every row of
\* the projection equals the purchase price, for every horizon and whatever
\* the rent growth, the expense growth and the selling cost are.
C22_ZeroAppreciation ==
    pj.a.annual_appreciation_pct = 0 =>
        \A y \in 1..Len(pj.yearly) :
            pj.yearly[y].property_value = pj.a.purchase_price

\* a 10-year projection at 0% appreciation was returned, rents and expenses
\* having grown and a selling cost having been charged at the exit
C22_Witness ==
    /\ pj.pc = "done"
    /\ pj.a.annual_appreciation_pct = 0
    /\ pj.a.annual_rent_growth_pct = 2
    /\ pj.a.annual_expense_growth_pct = 3
    /\ pj.a.selling_cost_pct = 6
    /\ Len(pj.yearly) = 10
    /\ pj.a.purchase_price = 750000
    /\ pj.yearly[10].property_value = 750000
    /\ pj.yearly[10].annual_gross_rent > pj.yearly[1].annual_gross_rent

\* C23: calculate_risk_score on the Sheboygan duplex fixture (purchase
\* 185000, loan 148000, rent 1800 a month, vacancy 5%, NOI 13320, DSCR 1.45,
\* cash-on-cash 11.1, built 1965, 45 days on market, market vacancy 5%,
\* appreciation 3.2%, 35% of the portfolio in the zip) returns a composite
\* score <= 33 and the label Low.
C23_SheboyganIsLow ==
    (Sheboygan /\ re.pc = "done") => (re.score <= 3300 /\ re.label = "Low")

\* the fixture was scored in 2026: DSCR 10.00, vacancy 50.00, appreciation
\* 25.71, age 72.00 and population growth 66.67 weigh 16.50 together
C23_Witness ==
    /\ Sheboygan
    /\ re.pc = "done"
    /\ re.dm.dscr = 14500 /\ re.dm.cash_on_cash = 111000
    /\ re.dm.year_built = 1965 /\ re.dm.days_on_market = 45
    /\ re.md.yoy_appreciation_pct = 32000
    /\ re.pd.pct_in_zip = 350000
    /\ re.now_year = 2026
    /\ re.factors.dscr_coverage = 1000
    /\ re.factors.property_age = 7200
    /\ re.score = 1650

\* C28: the projection and the balance primitive agree: for a loan > 0, a
\* rate >= 0 and every year y of the horizon, the loan_balance of row y is
\* calculate_remaining_balance(loan, rate, term, y), the payoff year and the
\* years after it included, where both are 0.
C28_BalanceAgreement ==
    (/\ pj.a.loan_amount # Unread
     /\ pj.a.loan_amount > 0
     /\ pj.a.annual_interest_rate >= 0) =>
        \A y \in 1..Len(pj.yearly) :
            pj.yearly[y].loan_balance =
                calculate_remaining_balance(pj.a.loan_amount,
                    pj.a.annual_interest_rate, pj.a.loan_term_years, y).value

=============================================================================
